---- MODULE Spec2Model ----
(***************************************************************************)
(* Model of the BracketOfDeathSite data import: the deployed script        *)
(* scripts/simple-data-import.js (variant "simple"), the older script      *)
(* importData (variant "legacy"), the marker file both write, and the      *)
(* result bulk-import request of TournamentResultController.               *)
(*                                                                         *)
(* Conventions.  A source string that the code only compares is a TLA+     *)
(* string; a source value that the code parses (parseInt, parseFloat) is   *)
(* the sequence of its characters.  The absent value (undefined) of a      *)
(* field is "" or <<>>; JSON null is NullV.  A team name is kept as the    *)
(* sequence of its parts between the delimiter " & ".  A fraction is kept  *)
(* in hundredths (0.75 is 75).  The import container runs in UTC, so the   *)
(* local year and month of a date are the ones written in the file name.   *)
(***************************************************************************)
EXTENDS Integers, Sequences, FiniteSets, TLC

\* ------------------------------------------------------------------------
\* Bounds of the model
\* ------------------------------------------------------------------------
MaxPlayerRows == 2
MaxScoreRows == 1
MaxFiles == 2
MaxTeamRows == 2
MaxRuns == 2
MaxRequests == 1

\* ------------------------------------------------------------------------
\* Source values
\* ------------------------------------------------------------------------
NullV == "<null>"

Digits == {"0", "1", "2", "3", "4", "5", "6", "7", "8", "9"}

DigitVal(c) ==
    CASE c = "0" -> 0 [] c = "1" -> 1 [] c = "2" -> 2 [] c = "3" -> 3
      [] c = "4" -> 4 [] c = "5" -> 5 [] c = "6" -> 6 [] c = "7" -> 7
      [] c = "8" -> 8 [] c = "9" -> 9

\* Number of leading digits of s from position i on.
RECURSIVE DigitRun(_, _)
DigitRun(s, i) ==
    IF i > Len(s) \/ s[i] \notin Digits THEN 0 ELSE 1 + DigitRun(s, i + 1)

\* Value of the n digits of s that start at position i.
RECURSIVE DigitsValue(_, _, _)
DigitsValue(s, i, n) ==
    IF n = 0 THEN 0
    ELSE DigitsValue(s, i, n - 1) * 10 + DigitVal(s[i + n - 1])

\* Number of leading blanks of s from position i on.
RECURSIVE BlankRun(_, _)
BlankRun(s, i) ==
    IF i > Len(s) \/ s[i] /= " " THEN 0 ELSE 1 + BlankRun(s, i + 1)

\* parseInt(x) || 0: blanks, an optional sign, then the longest run of
\* digits; no digit at all is NaN, which || turns into 0.
parseIntOr0(s) ==
    LET b == BlankRun(s, 1) + 1
        neg == b <= Len(s) /\ s[b] = "-"
        sgn == b <= Len(s) /\ s[b] \in {"-", "+"}
        d == IF sgn THEN b + 1 ELSE b
        n == DigitRun(s, d)
        v == DigitsValue(s, d, n)
    IN IF n = 0 THEN 0 ELSE IF neg THEN 0 - v ELSE v

\* parseFloat(x) || 0 in hundredths: as parseInt, then an optional "." and
\* fraction digits, of which the first two are kept.
parseFloatOr0(s) ==
    LET b == BlankRun(s, 1) + 1
        neg == b <= Len(s) /\ s[b] = "-"
        sgn == b <= Len(s) /\ s[b] \in {"-", "+"}
        d == IF sgn THEN b + 1 ELSE b
        n == DigitRun(s, d)
        dot == d + n <= Len(s) /\ s[d + n] = "."
        f == IF dot THEN DigitRun(s, d + n + 1) ELSE 0
        f1 == IF f >= 1 THEN DigitVal(s[d + n + 1]) ELSE 0
        f2 == IF f >= 2 THEN DigitVal(s[d + n + 2]) ELSE 0
        v == DigitsValue(s, d, n) * 100 + f1 * 10 + f2
    IN IF n = 0 /\ f = 0 THEN 0 ELSE IF neg THEN 0 - v ELSE v

\* ------------------------------------------------------------------------
\* Source records (the JSON files under DATA_DIR)
\* ------------------------------------------------------------------------
SeqUpTo(S, n) == UNION {[1..k -> S] : k \in 0..n}

JaneDoe == "Jane Doe"
JaneLower == "jane doe"
JohnSmith == "John Smith"

\* Lower-case form of a name, for "equal ignoring case".
LowerOf(n) == IF n = JaneDoe THEN JaneLower ELSE IF n = JohnSmith THEN "john smith" ELSE n

\* A row of All Players.json.
StatsRow(n, played, won, pct, best, avg) ==
    [uniq |-> n, name |-> "", gamesPlayed |-> played, gamesWon |-> won,
     winPct |-> pct, bestResult |-> best, avgFinish |-> avg]

\* A row with the statistics 0.7, 1 and 2.5 beside its two counters.
PlayerRow(n, played, won) ==
    StatsRow(n, played, won, <<"0", ".", "7">>, <<"1">>, <<"2", ".", "5">>)

\* A row of a per-tournament file.
TeamRow(teams, date, a, b, won, lost, played, pct, finish) ==
    [teams |-> teams, date |-> date, p1 |-> a, p2 |-> b, won |-> won, lost |-> lost,
     played |-> played, winPct |-> pct, bodFinish |-> finish,
     seed |-> <<"3">>, rrWon |-> <<"2">>, rrPlayed |-> <<"4">>, rrWinPct |-> <<"0", ".", "5">>]

\* The row with other values in Seed, RR Played and RR Win%.
WithRoundRobin(row, seed, rrPlayed, rrPct) ==
    [row EXCEPT !.seed = seed, !.rrPlayed = rrPlayed, !.rrWinPct = rrPct]

\* A row of All Scores.json.
ScoreRow(date, format, a, b, won, lost, played, pct, finish) ==
    [date |-> date, format |-> format, p1 |-> a, p2 |-> b, won |-> won, lost |-> lost,
     played |-> played, winPct |-> pct, bodFinish |-> finish]

\* A file that is absent, holds malformed JSON, or holds rows.
AbsentFile == [status |-> "absent", rows |-> <<>>]
MalformedFile == [status |-> "malformed", rows |-> <<>>]
OkFile(rows) == [status |-> "ok", rows |-> rows]

\* A per-tournament file "YYYY-MM-DD <token>.json".
TournamentFile(date, token, status, rows) ==
    [date |-> date, token |-> token, status |-> status, rows |-> rows]

\* The totals of the end-to-end row, and totals that break the invariants.
GoodTotals == <<<<"1", "2">>, <<"4">>, <<"1", "6">>, <<"0", ".", "7", "5">>, <<"1">>>>
BadTotals == <<<<"1", "2">>, <<"4">>, <<"1", "0">>, <<"1", ".", "5">>, <<"a">>>>

TeamRowOf(teams, date, a, b, t) == TeamRow(teams, date, a, b, t[1], t[2], t[3], t[4], t[5])
ScoreRowOf(date, format, a, b, t) == ScoreRow(date, format, a, b, t[1], t[2], t[3], t[4], t[5])

\* ------------------------------------------------------------------------
\* The document store (MongoDB collections; a collection is the sequence of
\* its documents in insertion order, which is the order findOne scans)
\* ------------------------------------------------------------------------
MinOf(S) == CHOOSE x \in S : \A y \in S : x <= y

IdsOf(coll) == {coll[i].id : i \in 1..Len(coll)}

\* findOne({name}): position of the first player with exactly this name, 0 = null.
FindPlayer(ps, n) ==
    LET hits == {i \in 1..Len(ps) : ps[i].name = n}
    IN IF hits = {} THEN 0 ELSE MinOf(hits)

\* findOne({bodNumber}): position of the first such tournament, 0 = null.
FindTournament(ts, bod) ==
    LET hits == {i \in 1..Len(ts) : ts[i].bodNumber = bod}
    IN IF hits = {} THEN 0 ELSE MinOf(hits)

\* {players: {$all: ids}}: every listed id occurs in the stored array.
AllIn(ids, stored) ==
    \A i \in 1..Len(ids) : \E j \in 1..Len(stored) : stored[j] = ids[i]

\* findOne({tournamentId, players: {$all: ids}}): position of the first match.
FindResult(rs, tid, ids) ==
    LET hits == {i \in 1..Len(rs) : rs[i].tournamentId = tid /\ AllIn(ids, rs[i].players)}
    IN IF hits = {} THEN 0 ELSE MinOf(hits)

\* The driver gives every document of a batch its _id before sending it.
AssignIds(docs, first) == [i \in 1..Len(docs) |-> [docs[i] EXCEPT !.id = first + i - 1]]

\* insertOne of every document in turn by a store that takes a document
\* whose _id it already holds.
RECURSIVE InsertEachNoIdCheck(_, _, _, _)
InsertEachNoIdCheck(coll, docs, rej, i) ==
    IF i > Len(docs) THEN coll
    ELSE IF i \in rej
         THEN InsertEachNoIdCheck(coll, docs, rej, i + 1)
         ELSE InsertEachNoIdCheck(Append(coll, docs[i]), docs, rej, i + 1)

\* insertOne of every document of docs in turn, each failure caught: the
\* store refuses a document its validator rejects (rej: the positions
\* rejected) and a document whose _id it already holds.
RECURSIVE InsertEach(_, _, _, _)
InsertEach(coll, docs, rej, i) ==
    IF i > Len(docs) THEN coll
    ELSE IF i \in rej \/ docs[i].id \in IdsOf(coll)
         THEN InsertEach(coll, docs, rej, i + 1)
         ELSE InsertEach(Append(coll, docs[i]), docs, rej, i + 1)

\* Ordered insertMany: documents go in one by one up to the first one the
\* validator rejects (cause "validation", error code 121) or up to position
\* t where the command fails for another cause (t = Len(docs) + 1: no such
\* failure).
InsertMany(coll, docs, rej, t) ==
    LET n == Len(docs)
        firstRej == IF rej = {} THEN n + 1 ELSE MinOf(rej)
        failAt == IF firstRej <= t THEN firstRej ELSE t
    IN [coll |-> coll \o SubSeq(docs, 1, failAt - 1),
        ok |-> failAt = n + 1,
        cause |-> IF failAt = n + 1 THEN "ok"
                  ELSE IF firstRej <= t THEN "validation" ELSE "other"]

\* try insertMany, and on any failure insert the documents one by one.
BulkThenEach(coll, docs, rej, t) ==
    LET bulk == InsertMany(coll, docs, rej, t)
    IN IF bulk.ok THEN bulk.coll ELSE InsertEach(bulk.coll, docs, rej, 1)

\* ------------------------------------------------------------------------
\* State
\* ------------------------------------------------------------------------
VARIABLES
    variant,        \* which script the data-init container runs: "simple" or "legacy"
    rejectNames,    \* the player names the players collection's validator rejects
    strictResults,  \* the validated tournamentresults collection checks the totals
    playersFile,    \* All Players.json
    championsFile,  \* Champions.json
    scoresFile,     \* All Scores.json
    files,          \* the per-tournament files, in readdirSync order
    authorizedUsers, \* AUTHORIZED_USERS split at its commas, <<>> when it is unset
    players,        \* collection players
    tournaments,    \* collection tournaments
    results,        \* collection tournamentresults
    nextId,         \* the next fresh ObjectId
    marker,         \* STATUS_FILE: 0 = absent, n = written by invocation n
    pc,             \* position of the running invocation, "idle" between invocations
    run,            \* number of invocations started
    fileIdx,        \* next per-tournament file of the running invocation
    phases,         \* the phases the running invocation has finished
    storeOps,       \* store commands the running invocation has issued
    markerAtStart,  \* the marker as the running invocation found it
    lastBulk,       \* how the insertMany of the latest phase ended, "none" without one
    history,        \* one entry per ended invocation: its outcome and the store counts
    notFound,       \* the count of players not found that the latest step logged
    backendUp,      \* the API serves requests (data-init has exited with code 0)
    requests,       \* requests to the backend that were started
    deleting,       \* the tournament delete request in flight, NoRequest without one
    creating,       \* the result-creating request in flight, NoRequest without one
    deleted,        \* the ids of the tournaments that delete requests removed
    other,          \* a second invocation of simpleImport that runs beside the first
    reply           \* the answer to the latest request that leaves the store as it is

inputVars == <<variant, rejectNames, strictResults, playersFile, championsFile, scoresFile, files,
               authorizedUsers>>
storeVars == <<players, tournaments, results, nextId>>
runVars == <<pc, run, fileIdx, phases, storeOps, markerAtStart, lastBulk, history, notFound>>
inflight == <<deleting, creating, deleted, other, reply>>
vars == <<inputVars, storeVars, marker, runVars, backendUp, requests, inflight>>

\* ------------------------------------------------------------------------
\* importPlayers
\* ------------------------------------------------------------------------
\* player['457 Unique Players'] || player.name || ''
FullNameOf(row) == IF row.uniq /= "" THEN row.uniq ELSE row.name

\* !fullName || fullName.trim() === ''
IsBlankName(n) == n \in {"", " "}

\* The rows that name a player, whether or not the store has the player.
NewPlayerRowsNoLookup(rows, ps) ==
    SelectSeq(rows, LAMBDA r : ~IsBlankName(FullNameOf(r)))

\* The rows that name a player no stored player has (the lookup is made
\* against the store, which does not change while the rows are scanned).
NewPlayerRows(rows, ps) ==
    SelectSeq(rows, LAMBDA r : ~IsBlankName(FullNameOf(r)) /\ FindPlayer(ps, FullNameOf(r)) = 0)

Min(a, b) == IF a < b THEN a ELSE b
Max(a, b) == IF a > b THEN a ELSE b

\* bestResult, avgFinish and winningPercentage are kept in hundredths.
cleanPlayer(row) ==
    [id |-> 0, name |-> FullNameOf(row),
     gamesPlayed |-> parseIntOr0(row.gamesPlayed),
     gamesWon |-> parseIntOr0(row.gamesWon),
     winningPercentage |-> parseFloatOr0(row.winPct),
     bestResult |-> 100 * parseIntOr0(row.bestResult),
     avgFinish |-> parseFloatOr0(row.avgFinish)]

cleanPlayerLegacy(row) ==
    LET gamesPlayed == parseIntOr0(row.gamesPlayed)
        gamesWon == parseIntOr0(row.gamesWon)
        bestResult == 100 * parseIntOr0(row.bestResult)
        avgFinish == parseFloatOr0(row.avgFinish)
        winningPercentage == parseFloatOr0(row.winPct)
        validGamesWon == Min(gamesWon, gamesPlayed)
        validBestResult == IF avgFinish > 0 /\ bestResult > 0
                           THEN Min(bestResult, avgFinish) ELSE bestResult
        validWinningPercentage == Max(0, Min(100, winningPercentage))
    IN [id |-> 0, name |-> FullNameOf(row),
        gamesPlayed |-> gamesPlayed,
        gamesWon |-> validGamesWon,
        winningPercentage |-> IF gamesPlayed > 0 THEN (100 * validGamesWon) \div gamesPlayed
                              ELSE validWinningPercentage,
        bestResult |-> validBestResult,
        avgFinish |-> avgFinish]

PlayerRejected(docs) == {i \in 1..Len(docs) : docs[i].name \in rejectNames}

\* The batch handed to insertMany: the clean players of the new rows.
PlayerBatch(rows, ps, nid) ==
    LET new == NewPlayerRows(rows, ps)
    IN AssignIds([i \in 1..Len(new) |-> cleanPlayer(new[i])], nid)

PlayerBatchLegacy(rows, ps, nid) ==
    LET new == NewPlayerRows(rows, ps)
    IN AssignIds([i \in 1..Len(new) |-> cleanPlayerLegacy(new[i])], nid)

\* importPlayers of simple-data-import.js; t: where a bulk insert fails for a
\* cause other than validation.
importPlayers(file, ps, nid, t) ==
    IF file.status = "absent"
    THEN [fatal |-> FALSE, players |-> ps, nextId |-> nid, ops |-> 0, bulk |-> "none"]
    ELSE IF file.status = "malformed"
    THEN [fatal |-> TRUE, players |-> ps, nextId |-> nid, ops |-> 0, bulk |-> "none"]
    ELSE LET docs == PlayerBatch(file.rows, ps, nid)
             rej == PlayerRejected(docs)
         IN [fatal |-> FALSE,
             players |-> IF docs = <<>> THEN ps ELSE BulkThenEach(ps, docs, rej, t),
             nextId |-> nid + Len(docs),
             ops |-> Len(file.rows) + 1,
             bulk |-> IF docs = <<>> THEN "none" ELSE InsertMany(ps, docs, rej, t).cause]

\* importPlayers of importData: the fallback runs only for error code 121,
\* any other bulk failure is thrown again.
importPlayersLegacy(file, ps, nid, t) ==
    IF file.status = "absent"
    THEN [fatal |-> FALSE, players |-> ps, nextId |-> nid, ops |-> 0, bulk |-> "none"]
    ELSE IF file.status = "malformed"
    THEN [fatal |-> TRUE, players |-> ps, nextId |-> nid, ops |-> 0, bulk |-> "none"]
    ELSE LET docs == PlayerBatchLegacy(file.rows, ps, nid)
             rej == PlayerRejected(docs)
             bulk == InsertMany(ps, docs, rej, t)
         IN [fatal |-> docs /= <<>> /\ bulk.cause = "other",
             players |-> IF docs = <<>> THEN ps
                         ELSE IF bulk.cause = "validation" THEN InsertEach(bulk.coll, docs, rej, 1)
                         ELSE bulk.coll,
             nextId |-> nid + Len(docs),
             ops |-> Len(file.rows) + 2,
             bulk |-> IF docs = <<>> THEN "none" ELSE bulk.cause]

\* ------------------------------------------------------------------------
\* importTournamentFile
\* ------------------------------------------------------------------------
\* parseInt(`${year}${month.toString().padStart(2, '0')}`)
BodNumberOf(date) == date[1] * 100 + date[2]

\* The format of simple-data-import.js: the token M or W, Mixed otherwise.
FormatOfToken(token) ==
    IF token = "M" THEN "M" ELSE IF token = "W" THEN "W" ELSE "Mixed"

\* formatPart.includes('Men'), .includes('Women'), .includes('Mixed')
TokenIncludes(token, part) ==
    CASE part = "Men" -> token \in {"Men", "Mens"}
      [] part = "Women" -> token \in {"Women", "Womens"}
      [] part = "Mixed" -> token \in {"Mixed", "MixedDoubles"}

\* The format of importData: first the long form, then the schema's code.
FormatOfTokenLegacy(token) ==
    LET format == IF token = "" THEN "Mixed"
                  ELSE IF TokenIncludes(token, "Men") \/ token = "M" THEN "Men"
                  ELSE IF TokenIncludes(token, "Women") \/ token = "W" THEN "Women"
                  ELSE "Mixed"
    IN IF format \in {"Men", "M"} THEN "M"
       ELSE IF format \in {"Women", "W"} THEN "W"
       ELSE "Mixed"

\* A row filter that takes a row without a team name.
ValidTeamWithoutTeamName(team) ==
    /\ ~(team.teams = <<"Tiebreakers">> \/ team.date = "Home" \/ team.date = NullV)
    /\ ((team.p1 /= "" /\ team.p2 /= "") \/ Len(team.teams) = 2)

\* The row filter of simple-data-import.js.
ValidTeam(team) ==
    /\ ~(team.teams = <<>> \/ team.teams = <<"Tiebreakers">>
         \/ team.date = "Home" \/ team.date = NullV)
    /\ ((team.p1 /= "" /\ team.p2 /= "") \/ Len(team.teams) = 2)

\* A row filter of importData that takes the Tiebreakers row.
ValidTeamLegacyWithTiebreakers(team) ==
    /\ team.date \notin {"", NullV, "Home"}
    /\ team.teams /= <<>>
    /\ team.p1 /= "" /\ team.p2 /= ""

\* The row filter of importData.
ValidTeamLegacy(team) ==
    /\ team.date \notin {"", NullV, "Home"}
    /\ team.teams /= <<>> /\ team.teams /= <<"Tiebreakers">>
    /\ team.p1 /= "" /\ team.p2 /= ""

\* The two player names of a row: the Player 1 and Player 2 columns, or the
\* two parts of the team name; <<>> when the row gives neither.
\* String.prototype.trim for the parts of the team names of the catalogue.
Trim(s) ==
    IF s = "Jane Doe " THEN "Jane Doe"
    ELSE IF s = " John Smith" THEN "John Smith"
    ELSE s

\* A reading of a row that takes the two parts of the team name the other
\* way round.
RowNamesReversed(team) ==
    IF team.p1 /= "" /\ team.p2 /= "" THEN <<team.p1, team.p2>>
    ELSE IF Len(team.teams) = 2 THEN <<Trim(team.teams[2]), Trim(team.teams[1])>>
    ELSE <<>>

RowNames(team) ==
    IF team.p1 /= "" /\ team.p2 /= "" THEN <<team.p1, team.p2>>
    ELSE IF Len(team.teams) = 2 THEN <<Trim(team.teams[1]), Trim(team.teams[2])>>
    ELSE <<>>

RowNamesLegacy(team) == <<team.p1, team.p2>>

BothFound(ps, names) ==
    names /= <<>> /\ FindPlayer(ps, names[1]) /= 0 /\ FindPlayer(ps, names[2]) /= 0

\* What a step logs about players not found: nothing, or the count.
NoCount == [logged |-> FALSE, count |-> 0]
Counted(n) == [logged |-> TRUE, count |-> n]

\* playersNotFound of simple-data-import.js: one for each name of a valid
\* row that findOne does not find.
playersNotFound(rows, ps) ==
    Cardinality({ik \in (1..Len(rows)) \X {1, 2} :
                    ValidTeam(rows[ik[1]]) /\ FindPlayer(ps, RowNames(rows[ik[1]])[ik[2]]) = 0})

\* failureCount of importData: one for each name of a valid row that
\* findOne does not find.
failureCount(rows, ps) ==
    Cardinality({ik \in (1..Len(rows)) \X {1, 2} :
                    ValidTeamLegacy(rows[ik[1]])
                    /\ FindPlayer(ps, RowNamesLegacy(rows[ik[1]])[ik[2]]) = 0})

\* The stored team result of a row (fractions in hundredths).
TeamResultDoc(tid, ps, names, row) ==
    [id |-> 0, tournamentId |-> tid,
     players |-> <<ps[FindPlayer(ps, names[1])].id, ps[FindPlayer(ps, names[2])].id>>,
     totalWon |-> parseIntOr0(row.won),
     totalLost |-> parseIntOr0(row.lost),
     totalPlayed |-> parseIntOr0(row.played),
     winPercentage |-> parseFloatOr0(row.winPct),
     bodFinish |-> parseIntOr0(row.bodFinish)]

\* A number that is stored, and the field of a document that is undefined.
Stored(n) == <<n>>
Undefined == <<>>

\* The stored team result of a row of a per-tournament file under
\* simple-data-import.js: the seed and the round robin counters beside the totals.
FileResultDoc(tid, ps, names, row) ==
    TeamResultDoc(tid, ps, names, row)
    @@ [seed |-> IF parseIntOr0(row.seed) /= 0 THEN Stored(parseIntOr0(row.seed)) ELSE Undefined,
        rrWon |-> parseIntOr0(row.rrWon),
        rrPlayed |-> parseIntOr0(row.rrPlayed),
        rrWinPercentage |-> parseFloatOr0(row.rrWinPct)]

\* The same under importData.
FileResultDocLegacy(tid, ps, names, row) ==
    LET seed == parseIntOr0(row.seed)
        rrWon == parseIntOr0(row.rrWon)
        rrPlayed == parseIntOr0(row.rrPlayed)
    IN TeamResultDoc(tid, ps, names, row)
       @@ [seed |-> IF seed > 0 THEN Stored(seed) ELSE Undefined,
           rrWon |-> rrWon,
           rrPlayed |-> rrPlayed,
           rrWinPercentage |-> IF rrPlayed > 0 THEN (100 * rrWon) \div rrPlayed ELSE 0]

\* The invariants of a stored result that validateTournamentResultData states.
TotalsOk(r) ==
    /\ r.totalWon + r.totalLost = r.totalPlayed
    /\ r.winPercentage >= 0 /\ r.winPercentage <= 100

\* The positions of a batch that the tournamentresults collection rejects:
\* simple-data-import.js recreates the collection without validation.
ResultRejected(docs) ==
    {i \in 1..Len(docs) : variant = "legacy" /\ strictResults /\ ~TotalsOk(docs[i])}

TournamentDoc(id, bod, date, format) ==
    [id |-> id, bodNumber |-> bod, date |-> date, format |-> format,
     location |-> "Tournament Location"]

\* The team results of a file whose tournament has got the id nid: one for
\* each valid row both of whose players are stored.
TeamBatch(file, ps, nid) ==
    LET found == SelectSeq(SelectSeq(file.rows, ValidTeam), LAMBDA r : BothFound(ps, RowNames(r)))
    IN AssignIds([i \in 1..Len(found) |->
                     FileResultDoc(nid, ps, RowNames(found[i]), found[i])], nid + 1)

TeamBatchLegacy(file, ps, nid) ==
    LET found == SelectSeq(SelectSeq(file.rows, ValidTeamLegacy),
                           LAMBDA r : BothFound(ps, RowNamesLegacy(r)))
    IN AssignIds([i \in 1..Len(found) |->
                     FileResultDocLegacy(nid, ps, RowNamesLegacy(found[i]), found[i])], nid + 1)

\* importTournamentFile of simple-data-import.js.
importTournamentFile(file, ps, ts, rs, nid, t) ==
    LET validTeamData == SelectSeq(file.rows, ValidTeam)
        tournament == TournamentDoc(nid, BodNumberOf(file.date), file.date, FormatOfToken(file.token))
        teamResults == TeamBatch(file, ps, nid)
        rej == ResultRejected(teamResults)
    IN IF file.status = "malformed"
       THEN [fatal |-> TRUE, tournaments |-> ts, results |-> rs, nextId |-> nid, ops |-> 0,
             bulk |-> "none", notFound |-> NoCount]
       ELSE IF validTeamData = <<>>
       THEN [fatal |-> FALSE, tournaments |-> ts, results |-> rs, nextId |-> nid, ops |-> 0,
             bulk |-> "none", notFound |-> NoCount]
       ELSE [fatal |-> FALSE,
             tournaments |-> Append(ts, tournament),
             results |-> IF teamResults = <<>> THEN rs ELSE BulkThenEach(rs, teamResults, rej, t),
             nextId |-> nid + 1 + Len(teamResults),
             ops |-> 2 + 2 * Len(validTeamData),
             notFound |-> Counted(playersNotFound(file.rows, ps)),
             bulk |-> IF teamResults = <<>> THEN "none"
                      ELSE InsertMany(rs, teamResults, rej, t).cause]

\* importTournamentFile of importData; an exception it throws is caught by
\* importTournaments, which goes on with the next file.
importTournamentFileLegacy(file, ps, ts, rs, nid, t) ==
    LET bodNumber == BodNumberOf(file.date)
        validTeamData == SelectSeq(file.rows, ValidTeamLegacy)
        tournament == TournamentDoc(nid, bodNumber, file.date, FormatOfTokenLegacy(file.token))
        tournamentResults == TeamBatchLegacy(file, ps, nid)
        rej == ResultRejected(tournamentResults)
    IN IF file.status = "malformed"
       THEN [fatal |-> FALSE, tournaments |-> ts, results |-> rs, nextId |-> nid, ops |-> 0,
             bulk |-> "none", notFound |-> NoCount]
       ELSE IF FindTournament(ts, bodNumber) /= 0 \/ validTeamData = <<>>
       THEN [fatal |-> FALSE, tournaments |-> ts, results |-> rs, nextId |-> nid, ops |-> 1,
             bulk |-> "none", notFound |-> NoCount]
       ELSE [fatal |-> FALSE,
             notFound |-> Counted(failureCount(file.rows, ps)),
             tournaments |-> Append(ts, tournament),
             results |-> IF tournamentResults = <<>> THEN rs
                         ELSE BulkThenEach(rs, tournamentResults, rej, t),
             nextId |-> nid + 1 + Len(tournamentResults),
             ops |-> 3 + 2 * Len(validTeamData),
             bulk |-> IF tournamentResults = <<>> THEN "none"
                      ELSE InsertMany(rs, tournamentResults, rej, t).cause]

\* ------------------------------------------------------------------------
\* importChampions and importAllScores (simple-data-import.js only)
\* ------------------------------------------------------------------------
\* format.toLowerCase().includes(part), format.includes('(')
LowerIncludes(format, part) ==
    CASE part = "men" -> format \in {"Men", "Men's", "Women", "Women's"}
      [] part = "women" -> format \in {"Women", "Women's"}
      [] part = "(" -> format \in {"(Totals)"}

\* The format code of a Champions.json or All Scores.json row.
FormatOfRow(format) ==
    IF format = "" THEN "Mixed"
    ELSE IF LowerIncludes(format, "men") THEN "M"
    ELSE IF LowerIncludes(format, "women") THEN "W"
    ELSE "Mixed"

\* A row of Champions.json.
ChampionRow(format, date, location) == [format |-> format, date |-> date, location |-> location]

\* findOne({format}): position of the first tournament of this format, 0 = null.
FindFormat(ts, format) ==
    LET hits == {i \in 1..Len(ts) : ts[i].format = format}
    IN IF hits = {} THEN 0 ELSE MinOf(hits)

RECURSIVE ApplyChampions(_, _, _)
ApplyChampions(ts, rows, i) ==
    IF i > Len(rows) THEN ts
    ELSE LET row == rows[i]
             skip == row.format = "" \/ LowerIncludes(row.format, "(") \/ row.date = NullV
             k == FindFormat(ts, FormatOfRow(row.format))
         IN IF skip \/ k = 0 \/ row.location = "" THEN ApplyChampions(ts, rows, i + 1)
            ELSE ApplyChampions([ts EXCEPT ![k].location = row.location], rows, i + 1)

\* An importChampions for which Champions.json is a required file.
importChampionsNeedingFile(file, ts) ==
    IF file.status \in {"absent", "malformed"} THEN [fatal |-> TRUE, tournaments |-> ts, ops |-> 0]
    ELSE [fatal |-> FALSE, tournaments |-> ApplyChampions(ts, file.rows, 1), ops |-> Len(file.rows)]

importChampions(file, ts) ==
    IF file.status = "absent" THEN [fatal |-> FALSE, tournaments |-> ts, ops |-> 0]
    ELSE IF file.status = "malformed" THEN [fatal |-> TRUE, tournaments |-> ts, ops |-> 0]
    ELSE [fatal |-> FALSE, tournaments |-> ApplyChampions(ts, file.rows, 1), ops |-> Len(file.rows)]

\* A score row the loop does not skip: it has a date that parses and two names.
ValidScore(row) == row.date /= <<>> /\ row.p1 /= "" /\ row.p2 /= "" /\ Len(row.date) = 3

\* newTournaments: one tournament for each identifying number, made from the
\* first row that has the number.
RECURSIVE NewTournaments(_, _, _)
NewTournaments(rows, i, seen) ==
    IF i > Len(rows) THEN <<>>
    ELSE LET bod == BodNumberOf(rows[i].date)
         IN IF bod \in seen THEN NewTournaments(rows, i + 1, seen)
            ELSE <<TournamentDoc(0, bod, rows[i].date, FormatOfRow(rows[i].format))>>
                 \o NewTournaments(rows, i + 1, seen \cup {bod})

\* insertOne of each team result no stored result of the tournament matches.
RECURSIVE InsertIfNew(_, _, _)
InsertIfNew(rs, docs, i) ==
    IF i > Len(docs) THEN rs
    ELSE IF FindResult(rs, docs[i].tournamentId, docs[i].players) /= 0
         THEN InsertIfNew(rs, docs, i + 1)
         ELSE InsertIfNew(Append(rs, docs[i]), docs, i + 1)

importAllScores(file, ps, ts, rs, nid) ==
    LET valid == SelectSeq(file.rows, ValidScore)
        existingBodNumbers == {ts[i].bodNumber : i \in 1..Len(ts)}
        newTournamentsToInsert ==
            SelectSeq(NewTournaments(valid, 1, {}), LAMBDA d : d.bodNumber \notin existingBodNumbers)
        ts2 == ts \o AssignIds(newTournamentsToInsert, nid)
        nid2 == nid + Len(newTournamentsToInsert)
        found == SelectSeq(valid, LAMBDA r : BothFound(ps, <<r.p1, r.p2>>))
        allTeamResults == AssignIds([i \in 1..Len(found) |->
            TeamResultDoc(ts2[FindTournament(ts2, BodNumberOf(found[i].date))].id,
                          ps, <<found[i].p1, found[i].p2>>, found[i])], nid2)
    IN IF file.status = "absent"
       THEN [fatal |-> FALSE, tournaments |-> ts, results |-> rs, nextId |-> nid, ops |-> 0]
       ELSE IF file.status = "malformed"
       THEN [fatal |-> TRUE, tournaments |-> ts, results |-> rs, nextId |-> nid, ops |-> 0]
       ELSE [fatal |-> FALSE,
             tournaments |-> ts2,
             results |-> InsertIfNew(rs, allTeamResults, 1),
             nextId |-> nid2 + Len(allTeamResults),
             ops |-> 1 + 2 * Len(valid) + 3 * Len(allTeamResults)]

\* ------------------------------------------------------------------------
\* TournamentResultController.bulkImport
\* ------------------------------------------------------------------------
\* A record of a bulk-import request.
ResultData(tid, ids, t) ==
    [tournamentId |-> tid, players |-> ids,
     totalWon |-> parseIntOr0(t[1]), totalLost |-> parseIntOr0(t[2]),
     totalPlayed |-> parseIntOr0(t[3]), winPercentage |-> parseFloatOr0(t[4]),
     bodFinish |-> parseIntOr0(t[5])]

\* The loop of bulkImport over the records of a request, from record i on;
\* acc: the collection, the next id, and the counters of the answer.
RECURSIVE bulkImport(_, _, _, _, _)
bulkImport(recs, ps, ts, i, acc) ==
    IF i > Len(recs) THEN acc
    ELSE LET d == recs[i]
             noTournament == d.tournamentId \notin IdsOf(ts)
             stored == {d.players[j] : j \in 1..Len(d.players)} \cap IdsOf(ps)
             noPlayers == Cardinality(stored) /= Len(d.players)
             k == FindResult(acc.results, d.tournamentId, d.players)
         IN IF noTournament \/ noPlayers
            THEN bulkImport(recs, ps, ts, i + 1, [acc EXCEPT !.errors = @ + 1])
            ELSE IF k /= 0
            THEN bulkImport(recs, ps, ts, i + 1,
                     [acc EXCEPT !.updated = @ + 1,
                                 !.results[k] = d @@ acc.results[k]])
            ELSE bulkImport(recs, ps, ts, i + 1,
                     [acc EXCEPT !.created = @ + 1,
                                 !.nextId = @ + 1,
                                 !.results = Append(@, [id |-> acc.nextId] @@ d)])

\* A record of the request body that is the JSON value null.
NullRecord == [json |-> NullV]

MaxRecords == 2

FirstNull(recs) ==
    LET nulls == {i \in 1..Len(recs) : recs[i] = NullRecord}
    IN IF nulls = {} THEN 0 ELSE MinOf(nulls)

NoCounters == [created |-> 0, updated |-> 0, errors |-> 0]

\* The answer of bulkImport and the store it leaves. A body without records
\* is answered with 400. A record that is null throws in the try block and
\* again in its catch block (resultData.tournamentId), which ends the loop
\* and hands the error to next(error).
bulkImportResponse(recs, ps, ts, rs, nid) ==
    IF recs = <<>> THEN [status |-> 400, results |-> rs, nextId |-> nid] @@ NoCounters
    ELSE LET k == FirstNull(recs)
             turns == IF k = 0 THEN recs ELSE SubSeq(recs, 1, k - 1)
         IN [status |-> IF k = 0 THEN 200 ELSE 500]
            @@ bulkImport(turns, ps, ts, 1, [results |-> rs, nextId |-> nid] @@ NoCounters)

\* ------------------------------------------------------------------------
\* The invocations of the import (simpleImport, importData)
\* ------------------------------------------------------------------------
\* What the log of an ended invocation shows: outcome and store counts.
Entry(outcome, ps, ts, rs) ==
    [outcome |-> outcome, players |-> Len(ps), tournaments |-> Len(ts),
     results |-> Len(rs), requests |-> requests]

\* An order of phases that goes from the champions to the files.
NextPcSkippingScores(phase) ==
    IF phase = "players" THEN (IF variant = "simple" THEN "champions" ELSE "files")
    ELSE "files"

\* The phase after a finished phase: simpleImport awaits importPlayers,
\* importChampions, importAllScores and the files; importData awaits
\* importPlayers and importTournaments.
NextPc(phase) ==
    IF phase = "players" THEN (IF variant = "simple" THEN "champions" ELSE "files")
    ELSE IF phase = "champions" THEN "scores"
    ELSE "files"

\* The end of a phase: on a fatal error the catch block exits with code 1.
EndPhase(fatal, phase, ops, bulk, ps, ts, rs) ==
    /\ pc' = IF fatal THEN "idle" ELSE NextPc(phase)
    /\ history' = IF fatal THEN Append(history, Entry("failed", ps, ts, rs)) ELSE history
    /\ phases' = IF fatal THEN phases ELSE phases \cup {phase}
    /\ storeOps' = storeOps + ops
    /\ lastBulk' = bulk
    /\ notFound' = NoCount
    /\ UNCHANGED <<inputVars, marker, run, markerAtStart, backendUp, requests, inflight>>

\* simpleImport returns at once when STATUS_FILE exists; otherwise it
\* connects and drops tournaments.
\* importData connects without looking at STATUS_FILE.
StartRun ==
    /\ pc = "idle"
    /\ run < MaxRuns
    /\ run' = run + 1
    /\ markerAtStart' = marker
    /\ phases' = {}
    /\ fileIdx' = 1
    /\ lastBulk' = "none"
    /\ notFound' = NoCount
    /\ \E connected \in BOOLEAN :
         IF variant = "simple" /\ marker /= 0
         THEN /\ pc' = "idle"
              /\ storeOps' = 0
              /\ history' = Append(history, Entry("skipped", players, tournaments, results))
              /\ backendUp' = TRUE
              /\ UNCHANGED <<tournaments, results>>
         ELSE IF ~connected
         THEN /\ pc' = "idle"
              /\ storeOps' = 0
              /\ history' = Append(history, Entry("failed", players, tournaments, results))
              /\ UNCHANGED <<tournaments, results, backendUp>>
         ELSE /\ pc' = IF variant = "simple" THEN "drop" ELSE "players"
              /\ storeOps' = IF variant = "simple" THEN 1 ELSE 0
              /\ tournaments' = IF variant = "simple" THEN <<>> ELSE tournaments
              /\ UNCHANGED <<results, history, backendUp>>
    /\ UNCHANGED <<inputVars, players, nextId, marker, requests, inflight>>

\* simpleImport after the drop of tournaments: it awaits the drop of
\* tournamentresults and the two createCollection calls.
DropResults ==
    /\ pc = "drop"
    /\ pc' = "players"
    /\ results' = <<>>
    /\ storeOps' = storeOps + 3
    /\ UNCHANGED <<inputVars, players, tournaments, nextId, marker, run, fileIdx, phases,
                   markerAtStart, lastBulk, history, notFound, backendUp, requests, inflight>>

ImportPlayers ==
    /\ pc = "players"
    /\ \E t \in 1..(Len(playersFile.rows) + 1) :
         \E out \in {IF variant = "simple"
                      THEN importPlayers(playersFile, players, nextId, t)
                      ELSE importPlayersLegacy(playersFile, players, nextId, t)} :
            /\ players' = out.players
            /\ nextId' = out.nextId
            /\ EndPhase(out.fatal, "players", out.ops, out.bulk, out.players, tournaments, results)
    /\ UNCHANGED <<tournaments, results, fileIdx>>

ImportChampions ==
    /\ pc = "champions"
    /\ \E out \in {importChampions(championsFile, tournaments)} :
          /\ tournaments' = out.tournaments
          /\ EndPhase(out.fatal, "champions", out.ops, "none", players, out.tournaments, results)
    /\ UNCHANGED <<players, results, nextId, fileIdx>>

ImportAllScores ==
    /\ pc = "scores"
    /\ \E out \in {importAllScores(scoresFile, players, tournaments, results, nextId)} :
          /\ tournaments' = out.tournaments
          /\ results' = out.results
          /\ nextId' = out.nextId
          /\ EndPhase(out.fatal, "scores", out.ops, "none", players, out.tournaments, out.results)
    /\ UNCHANGED <<players, fileIdx>>

\* One turn of the loop over the per-tournament files.
ImportTournamentFile ==
    /\ pc = "files"
    /\ fileIdx <= Len(files)
    /\ \E t \in 1..(Len(files[fileIdx].rows) + 1) :
         \E out \in {IF variant = "simple"
                      THEN importTournamentFile(files[fileIdx], players, tournaments, results, nextId, t)
                      ELSE importTournamentFileLegacy(files[fileIdx], players, tournaments, results, nextId, t)} :
            /\ tournaments' = out.tournaments
            /\ results' = out.results
            /\ nextId' = out.nextId
            /\ pc' = IF out.fatal THEN "idle" ELSE "files"
            /\ history' = IF out.fatal
                          THEN Append(history, Entry("failed", players, out.tournaments, out.results))
                          ELSE history
            /\ storeOps' = storeOps + out.ops
            /\ lastBulk' = out.bulk
            /\ notFound' = out.notFound
    /\ fileIdx' = fileIdx + 1
    /\ UNCHANGED <<inputVars, players, marker, run, phases, markerAtStart, backendUp, requests, inflight>>

\* fs.writeFileSync(STATUS_FILE, ...) after the last file; the process exits
\* with code 0 and the backend may start.
WriteMarker ==
    /\ pc = "files"
    /\ fileIdx > Len(files)
    /\ marker' = run
    /\ pc' = "idle"
    /\ phases' = phases \cup {"files"}
    /\ history' = Append(history, Entry("done", players, tournaments, results))
    /\ backendUp' = TRUE
    /\ UNCHANGED <<inputVars, storeVars, run, fileIdx, storeOps, markerAtStart, lastBulk, notFound,
                   requests, inflight>>

\* The status file is deleted to force a fresh import (test-import.js).
RemoveMarker ==
    /\ pc = "idle"
    /\ marker /= 0
    /\ run < MaxRuns
    /\ marker' = 0
    /\ UNCHANGED <<inputVars, storeVars, runVars, backendUp, requests, inflight>>

\* The records a request can hold: null, and the results of a stored or
\* unknown tournament for one unknown player or for two stored players.
RecordSet(ps, ts) ==
    {NullRecord} \cup
    {ResultData(tid, ids, GoodTotals) :
        tid \in IdsOf(ts) \cup {0},
        ids \in {<<0>>} \cup {<<a, b>> : a \in IdsOf(ps), b \in IdsOf(ps)}}

\* The answer of a bulk import of n records.
BulkAnswer(n, out) ==
    [step |-> "none", status |-> out.status, records |-> n,
     created |-> out.created, updated |-> out.updated, errors |-> out.errors]

\* A bulk-import request of tournament results to the running backend.
BulkImportRequest ==
    /\ backendUp
    /\ pc = "idle"
    /\ creating.step = "none"
    /\ requests < MaxRequests
    /\ \E recs \in SeqUpTo(RecordSet(players, tournaments), MaxRecords) :
         \E out \in {bulkImportResponse(recs, players, tournaments, results, nextId)} :
            /\ results' = out.results
            /\ nextId' = out.nextId
            /\ creating' = BulkAnswer(Len(recs), out)
    /\ requests' = requests + 1
    /\ UNCHANGED <<inputVars, players, tournaments, marker, runVars, backendUp,
                   deleting, deleted, other, reply>>

\* ------------------------------------------------------------------------
\* The handlers of the backend step by step: a handler is async, and the
\* backend serves other requests while one waits for the store
\* ------------------------------------------------------------------------
MaxApiCalls == 3

\* A handler that is not serving, with the status of its latest answer.
Answer(status) ==
    [step |-> "none", status |-> status, records |-> 0,
     created |-> 0, updated |-> 0, errors |-> 0]
NoRequest == Answer(0)

resultsCount(rs, id) == Cardinality({i \in 1..Len(rs) : rs[i].tournamentId = id})
deleteMany(rs, id) == SelectSeq(rs, LAMBDA r : r.tournamentId /= id)
findByIdAndDelete(ts, id) == SelectSeq(ts, LAMBDA t : t.id /= id)

\* What delete does once countDocuments has answered n.
AfterCount(req, n) ==
    IF n > 0 /\ ~req.cascade THEN Answer(400)
    ELSE IF req.cascade /\ n > 0 THEN [req EXCEPT !.step = "deleteMany"]
    ELSE [req EXCEPT !.step = "delete"]

\* delete: Tournament.findById, 404 for an id that is not stored.
DeleteFind ==
    /\ backendUp
    /\ pc = "idle"
    /\ deleting.step = "none"
    /\ requests < MaxApiCalls
    /\ \E id \in IdsOf(tournaments) \cup {0}, cascade \in BOOLEAN :
          deleting' = IF id \in IdsOf(tournaments)
                      THEN [step |-> "count", id |-> id, cascade |-> cascade]
                      ELSE Answer(404)
    /\ requests' = requests + 1
    /\ UNCHANGED <<inputVars, storeVars, marker, runVars, backendUp, creating, deleted, other, reply>>

\* delete: TournamentResult.countDocuments and the decision on its answer.
DeleteCount ==
    /\ deleting.step = "count"
    /\ deleting' = AfterCount(deleting, resultsCount(results, deleting.id))
    /\ UNCHANGED <<inputVars, storeVars, marker, runVars, backendUp, requests, creating, deleted, other, reply>>

\* delete: TournamentResult.deleteMany.
DeleteResults ==
    /\ deleting.step = "deleteMany"
    /\ results' = deleteMany(results, deleting.id)
    /\ deleting' = [deleting EXCEPT !.step = "delete"]
    /\ UNCHANGED <<inputVars, players, tournaments, nextId, marker, runVars, backendUp,
                   requests, creating, deleted, other, reply>>

\* delete: Tournament.findByIdAndDelete and the answer.
DeleteTournament ==
    /\ deleting.step = "delete"
    /\ tournaments' = findByIdAndDelete(tournaments, deleting.id)
    /\ deleted' = deleted \cup ({deleting.id} \cap IdsOf(tournaments))
    /\ deleting' = Answer(200)
    /\ UNCHANGED <<inputVars, players, results, nextId, marker, runVars, backendUp,
                   requests, creating, other, reply>>

\* bulkImport of one record: Tournament.findById, an error entry for an id
\* that is not stored.
CreateFind ==
    /\ backendUp
    /\ pc = "idle"
    /\ creating.step = "none"
    /\ requests < MaxApiCalls
    /\ \E tid \in IdsOf(tournaments) \cup {0} :
       \E ids \in UNION {[1..k -> IdsOf(players) \cup {0}] : k \in 1..2} :
          creating' = IF tid \in IdsOf(tournaments)
                      THEN [step |-> "store", tournamentId |-> tid, players |-> ids]
                      ELSE BulkAnswer(1, [status |-> 200, created |-> 0, updated |-> 0,
                                          errors |-> 1])
    /\ requests' = requests + 1
    /\ UNCHANGED <<inputVars, storeVars, marker, runVars, backendUp, deleting, deleted, other, reply>>

\* bulkImport of one record: the rest of the record's turn, for the
\* tournament that findById has found.
CreateStore ==
    /\ creating.step = "store"
    /\ \E out \in {bulkImport(<<ResultData(creating.tournamentId, creating.players, GoodTotals)>>,
                              players, <<[id |-> creating.tournamentId]>>, 1,
                              [results |-> results, nextId |-> nextId] @@ NoCounters)} :
          /\ results' = out.results
          /\ nextId' = out.nextId
          /\ creating' = BulkAnswer(1, [status |-> 200] @@ out)
    /\ UNCHANGED <<inputVars, players, tournaments, marker, runVars, backendUp,
                   requests, deleting, deleted, other, reply>>

\* ------------------------------------------------------------------------
\* A second invocation of simpleImport beside the first: its phases are the
\* same functions, and its importPlayers is taken in its two parts, the
\* scan of the rows (findOne per row) and the insertMany of the batch
\* ------------------------------------------------------------------------
NoReply == [kind |-> "none"]

NotStarted ==
    [pc |-> "idle", rows |-> <<>>, fileIdx |-> 1, markerAtStart |-> 0,
     busyAtStart |-> FALSE, runAtStart |-> 0, runAtEnd |-> 0]

OtherRuns == other.pc \notin {"idle", "skipped", "failed", "done"}

\* The second invocation goes on to step p, or ends as p.
OtherGoes(p) == [other EXCEPT !.pc = p, !.runAtEnd = run]

\* The marker check, process.exit(1) without a connection.
OtherStart ==
    /\ variant = "simple"
    /\ other.pc = "idle"
    /\ \E connected \in BOOLEAN :
          other' = [NotStarted EXCEPT !.pc = IF marker /= 0 THEN "skipped"
                                            ELSE IF ~connected THEN "failed" ELSE "drop",
                                      !.markerAtStart = marker,
                                      !.busyAtStart = (pc /= "idle"),
                                      !.runAtStart = run,
                                      !.runAtEnd = run]
    /\ UNCHANGED <<inputVars, storeVars, marker, runVars, backendUp, requests,
                   deleting, creating, deleted, reply>>

\* drop and createCollection of tournaments and tournamentresults.
OtherDrop ==
    /\ other.pc = "drop"
    /\ tournaments' = <<>>
    /\ results' = <<>>
    /\ other' = OtherGoes("scan")
    /\ UNCHANGED <<inputVars, players, nextId, marker, runVars, backendUp, requests,
                   deleting, creating, deleted, reply>>

\* importPlayers up to the end of its loop over the rows.
OtherScan ==
    /\ other.pc = "scan"
    /\ other' = IF playersFile.status = "absent" THEN OtherGoes("champions")
                ELSE IF playersFile.status = "malformed" THEN OtherGoes("failed")
                ELSE [OtherGoes("insert") EXCEPT !.rows = NewPlayerRows(playersFile.rows, players)]
    /\ UNCHANGED <<inputVars, storeVars, marker, runVars, backendUp, requests,
                   deleting, creating, deleted, reply>>

\* importPlayers from its insertMany on.
OtherInsert ==
    /\ other.pc = "insert"
    /\ \E t \in 1..(Len(other.rows) + 1) :
         \E docs \in {AssignIds([i \in 1..Len(other.rows) |-> cleanPlayer(other.rows[i])], nextId)} :
            /\ players' = IF docs = <<>> THEN players
                          ELSE BulkThenEach(players, docs, PlayerRejected(docs), t)
            /\ nextId' = nextId + Len(docs)
    /\ other' = [OtherGoes("champions") EXCEPT !.rows = <<>>]
    /\ UNCHANGED <<inputVars, tournaments, results, marker, runVars, backendUp, requests,
                   deleting, creating, deleted, reply>>

OtherChampions ==
    /\ other.pc = "champions"
    /\ \E out \in {importChampions(championsFile, tournaments)} :
          /\ tournaments' = out.tournaments
          /\ other' = OtherGoes(IF out.fatal THEN "failed" ELSE "scores")
    /\ UNCHANGED <<inputVars, players, results, nextId, marker, runVars, backendUp, requests,
                   deleting, creating, deleted, reply>>

OtherScores ==
    /\ other.pc = "scores"
    /\ \E out \in {importAllScores(scoresFile, players, tournaments, results, nextId)} :
          /\ tournaments' = out.tournaments
          /\ results' = out.results
          /\ nextId' = out.nextId
          /\ other' = OtherGoes(IF out.fatal THEN "failed" ELSE "files")
    /\ UNCHANGED <<inputVars, players, marker, runVars, backendUp, requests,
                   deleting, creating, deleted, reply>>

OtherFile ==
    /\ other.pc = "files"
    /\ other.fileIdx <= Len(files)
    /\ \E t \in 1..(Len(files[other.fileIdx].rows) + 1) :
         \E out \in {importTournamentFile(files[other.fileIdx], players, tournaments, results,
                                          nextId, t)} :
            /\ tournaments' = out.tournaments
            /\ results' = out.results
            /\ nextId' = out.nextId
            /\ other' = [OtherGoes(IF out.fatal THEN "failed" ELSE "files")
                            EXCEPT !.fileIdx = @ + 1]
    /\ UNCHANGED <<inputVars, players, marker, runVars, backendUp, requests,
                   deleting, creating, deleted, reply>>

OtherMarker ==
    /\ other.pc = "files"
    /\ other.fileIdx > Len(files)
    /\ marker' = MaxRuns + 1
    /\ other' = OtherGoes("done")
    /\ UNCHANGED <<inputVars, storeVars, runVars, backendUp, requests,
                   deleting, creating, deleted, reply>>

\* ------------------------------------------------------------------------
\* PlayerController.getPerformanceTrends
\* ------------------------------------------------------------------------
\* calculateConsistencyScore in hundredths, for bestResult and avgFinish in
\* hundredths (the quotient is cut to hundredths).
calculateConsistencyScore(player) ==
    IF player.bestResult = 0 \/ player.avgFinish = 0 THEN 0
    ELSE Max(0, Min(100, 100 - ((100 * player.bestResult) \div player.avgFinish - 100)))

\* A request for the performance trends of a player: 404 for an id that is
\* not stored.
GetPerformanceTrends ==
    /\ backendUp
    /\ pc = "idle"
    /\ \E id \in IdsOf(players) \cup {0} :
          reply' = IF id \notin IdsOf(players) THEN [kind |-> "trends", status |-> 404]
                   ELSE LET player == players[CHOOSE i \in 1..Len(players) : players[i].id = id]
                        IN [kind |-> "trends", status |-> 200,
                            bestResult |-> player.bestResult, avgFinish |-> player.avgFinish,
                            consistencyScore |-> calculateConsistencyScore(player)]
    /\ UNCHANGED <<inputVars, storeVars, marker, runVars, backendUp, requests,
                   deleting, creating, deleted, other>>

\* ------------------------------------------------------------------------
\* middleware/auth and the protected routes
\* ------------------------------------------------------------------------
EnvUnset == <<>>

\* The Authorization headers of the requests; "" is a request without one.
HeaderSet ==
    {"", "Basic mock-admin-token", "Bearer ", "Bearer mock-admin-token", "Bearer expired-token"}

\* authHeader.startsWith('Bearer ')
StartsWithBearer(authHeader) ==
    authHeader \in {"Bearer ", "Bearer mock-admin-token", "Bearer expired-token"}

\* authHeader.substring(7)
Substring7(authHeader) ==
    IF authHeader = "Bearer mock-admin-token" THEN "mock-admin-token"
    ELSE IF authHeader = "Bearer expired-token" THEN "expired-token"
    ELSE IF authHeader = "Basic mock-admin-token" THEN "ock-admin-token"
    ELSE ""

\* verifyGoogleToken: the email of the token's user, "" when it throws.
verifyGoogleToken(token) == IF token = "mock-admin-token" THEN "admin@example.com" ELSE ""

\* u.trim().toLowerCase() of an entry of AUTHORIZED_USERS
TrimLower(u) == IF u = " Admin@Example.com " THEN "admin@example.com" ELSE u

isAuthorizedUser(email) ==
    LET authorizedUsers_ == IF authorizedUsers = EnvUnset THEN <<"admin@example.com">>
                            ELSE authorizedUsers
    IN \E i \in 1..Len(authorizedUsers_) : TrimLower(authorizedUsers_[i]) = TrimLower(email)

\* A requireAuth that lets every verified token through.
requireAuthAnyUser(authHeader) ==
    IF authHeader = "" \/ ~StartsWithBearer(authHeader) THEN [status |-> 401, next |-> FALSE]
    ELSE IF Substring7(authHeader) = "" THEN [status |-> 401, next |-> FALSE]
    ELSE IF verifyGoogleToken(Substring7(authHeader)) = "" THEN [status |-> 401, next |-> FALSE]
    ELSE [status |-> 0, next |-> TRUE]

\* requireAuth: the status it answers with (0 when it answers nothing) and
\* whether it calls next().
requireAuth(authHeader) ==
    IF authHeader = "" \/ ~StartsWithBearer(authHeader) THEN [status |-> 401, next |-> FALSE]
    ELSE IF Substring7(authHeader) = "" THEN [status |-> 401, next |-> FALSE]
    ELSE IF verifyGoogleToken(Substring7(authHeader)) = "" THEN [status |-> 401, next |-> FALSE]
    ELSE IF ~isAuthorizedUser(verifyGoogleToken(Substring7(authHeader)))
         THEN [status |-> 403, next |-> FALSE]
    ELSE [status |-> 0, next |-> TRUE]

\* validateObjectId: -1 stands for an id that is no ObjectId.
validateObjectId(id) == IF id = -1 THEN [status |-> 400, next |-> FALSE]
                        ELSE [status |-> 0, next |-> TRUE]

\* The request bodies of PATCH /players/:id/stats; both required fields
\* are present in each.
StatsBodySet == {[gamesPlayed |-> 10, gamesWon |-> 7], [gamesPlayed |-> 3, gamesWon |-> 5]}

\* PlayerController.updateStats: the status and the players afterwards.
updateStats(ps, id, statsUpdate) ==
    IF statsUpdate.gamesWon > statsUpdate.gamesPlayed THEN [status |-> 400, players |-> ps]
    ELSE IF id \notin IdsOf(ps) THEN [status |-> 404, players |-> ps]
    ELSE [status |-> 200,
          players |-> [i \in 1..Len(ps) |->
                          IF ps[i].id = id
                          THEN [ps[i] EXCEPT !.gamesPlayed = statsUpdate.gamesPlayed,
                                             !.gamesWon = statsUpdate.gamesWon]
                          ELSE ps[i]]]

\* router.patch('/:id/stats', requireAuth, validateObjectId, updateStats):
\* the chain ends at the first middleware that answers.
PatchStats(ps, authHeader, id, statsUpdate) ==
    IF ~requireAuth(authHeader).next
    THEN [status |-> requireAuth(authHeader).status, handled |-> FALSE, players |-> ps]
    ELSE IF ~validateObjectId(id).next
    THEN [status |-> 400, handled |-> FALSE, players |-> ps]
    ELSE [status |-> updateStats(ps, id, statsUpdate).status, handled |-> TRUE,
          players |-> updateStats(ps, id, statsUpdate).players]

UpdateStatsRequest ==
    /\ backendUp
    /\ pc = "idle"
    /\ requests < MaxRequests
    /\ \E authHeader \in HeaderSet, id \in IdsOf(players) \cup {0, -1}, statsUpdate \in StatsBodySet :
          \E out \in {PatchStats(players, authHeader, id, statsUpdate)} :
             /\ players' = out.players
             /\ reply' = [kind |-> "auth", route |-> "PATCH /players/:id/stats",
                          authHeader |-> authHeader, status |-> out.status,
                          handled |-> out.handled]
    /\ requests' = requests + 1
    /\ UNCHANGED <<inputVars, tournaments, results, nextId, marker, runVars, backendUp,
                   deleting, creating, deleted, other>>

\* router.get('/migration/status', requireAuth, getMigrationStatus): the
\* handler reads the store and answers 200.
MigrationStatusRequest ==
    /\ backendUp
    /\ pc = "idle"
    /\ requests < MaxRequests
    /\ \E authHeader \in HeaderSet :
          reply' = [kind |-> "auth", route |-> "GET /data/migration/status",
                    authHeader |-> authHeader,
                    status |-> IF requireAuth(authHeader).next THEN 200
                               ELSE requireAuth(authHeader).status,
                    handled |-> requireAuth(authHeader).next]
    /\ requests' = requests + 1
    /\ UNCHANGED <<inputVars, storeVars, marker, runVars, backendUp,
                   deleting, creating, deleted, other>>

\* ------------------------------------------------------------------------
\* TournamentController.create and the Tournament schema
\* ------------------------------------------------------------------------
\* bodNumber.toString().length === 6, for an integer
SixCharacters(bodNumber) ==
    (bodNumber >= 100000 /\ bodNumber <= 999999) \/ (bodNumber <= -10000 /\ bodNumber >= -99999)

\* The errors validateTournamentData finds in the bodNumber of the body; an
\* absent bodNumber and 0 are falsy and are not looked at.
bodNumberErrors(bodNumber) ==
    IF bodNumber = 0 THEN {}
    ELSE IF ~SixCharacters(bodNumber) THEN {"BOD number must be 6 digits (YYYYMM)"}
    ELSE IF bodNumber < 0 \/ bodNumber \div 100 < 2009
            \/ bodNumber % 100 < 1 \/ bodNumber % 100 > 12
         THEN {"BOD number must be valid (YYYYMM format)"}
    ELSE {}

\* The check of date against bodNumber in validateTournamentData, for a
\* date of the body and a bodNumber that is not falsy.
consistencyErrors(date, bodNumber) ==
    IF bodNumber = 0 THEN {}
    ELSE IF ~SixCharacters(bodNumber) \/ bodNumber < 0
            \/ date[1] /= bodNumber \div 100 \/ date[2] /= bodNumber % 100
         THEN {"Date must match BOD number year and month"}
    ELSE {}

validateTournamentData(data) ==
    bodNumberErrors(data.bodNumber) \cup consistencyErrors(data.date, data.bodNumber)

\* The schema's path validators of bodNumber: min 1, then the sequential
\* range, then the legacy YYYYMM form; an integer above 999999 has more than
\* six characters.
bodNumberValid(bodNumber) ==
    /\ bodNumber >= 1
    /\ bodNumber <= 999999

\* The bodNumber values and dates of the request bodies.
BodNumberSet == {0, 1, 5, 99999, 123456, 200812, 200901, 202407, 202413, 999999, 1000000}
BodyDateSet == {<<2024, 7, 20>>, <<2009, 1, 15>>}

\* TournamentController.create: validateTournamentData, then the create of
\* the base controller, which saves the document under the schema's
\* validators and the unique index of bodNumber.
createTournament(ts, nid, data) ==
    IF validateTournamentData(data) /= {}
    THEN [stage |-> "controller", tournaments |-> ts, nextId |-> nid]
    ELSE IF ~bodNumberValid(data.bodNumber)
    THEN [stage |-> "schema", tournaments |-> ts, nextId |-> nid]
    ELSE IF \E i \in 1..Len(ts) : ts[i].bodNumber = data.bodNumber
    THEN [stage |-> "unique", tournaments |-> ts, nextId |-> nid]
    ELSE [stage |-> "created", nextId |-> nid + 1,
          tournaments |-> Append(ts, TournamentDoc(nid, data.bodNumber, data.date, data.format))]

CreateTournamentRequest ==
    /\ backendUp
    /\ pc = "idle"
    /\ requests < MaxRequests
    /\ \E bodNumber \in BodNumberSet, date \in BodyDateSet :
          \E out \in {createTournament(tournaments, nextId,
                                       [bodNumber |-> bodNumber, date |-> date, format |-> "W"])} :
             /\ tournaments' = out.tournaments
             /\ nextId' = out.nextId
             /\ reply' = [kind |-> "create", bodNumber |-> bodNumber, date |-> date,
                          stage |-> out.stage,
                          controller |-> bodNumberErrors(bodNumber) = {},
                          schema |-> bodNumberValid(bodNumber)]
    /\ requests' = requests + 1
    /\ UNCHANGED <<inputVars, players, results, marker, runVars, backendUp,
                   deleting, creating, deleted, other>>

Next ==
    \/ StartRun
    \/ DropResults
    \/ ImportPlayers
    \/ ImportChampions
    \/ ImportAllScores
    \/ ImportTournamentFile
    \/ WriteMarker
    \/ RemoveMarker

\* ------------------------------------------------------------------------
\* Initial states: an empty store and the JSON files of one deployment
\* ------------------------------------------------------------------------
StdPlayed == <<"1", "0">>
StdWon == <<"7">>

PlayerRowSet == {PlayerRow(n, StdPlayed, StdWon) : n \in {JaneDoe, JaneLower, JohnSmith}}

\* A genuine team row, and the row of the end-to-end scenario, which has
\* the two player columns and neither a team name nor a date.
GoodRow(a, b) == TeamRowOf(<<a, b>>, "2024-07-20", a, b, GoodTotals)
BadRow(a, b) == TeamRowOf(<<a, b>>, "2024-07-20", a, b, BadTotals)
ScenarioRow == TeamRowOf(<<>>, "", JaneDoe, JohnSmith, GoodTotals)

TeamRowSet == {GoodRow(JaneDoe, JohnSmith), GoodRow(JohnSmith, JaneDoe),
               BadRow(JaneDoe, JohnSmith), ScenarioRow}

ScoreRowSet == {ScoreRowOf(<<2024, 3, 10>>, "Men's", JaneDoe, JohnSmith, GoodTotals),
                ScoreRowOf(<<2024, 3, 10>>, "Men's", JohnSmith, JaneDoe, BadTotals),
                ScoreRowOf(<<2024, 7, 20>>, "Mixed", JaneDoe, JohnSmith, GoodTotals),
                ScoreRowOf(<<2024, 7, 20>>, "Men's", JaneDoe, JohnSmith, GoodTotals)}

FileDates == {<<2024, 3, 1>>, <<2024, 3, 15>>, <<2024, 7, 20>>}

BothPlayers == OkFile(<<PlayerRow(JaneDoe, StdPlayed, StdWon), PlayerRow(JohnSmith, StdPlayed, StdWon)>>)
OnlyJane == OkFile(<<PlayerRow(JaneDoe, StdPlayed, StdWon)>>)
SomeChampions == OkFile(<<ChampionRow("Men's", "2024-07-20", "Club")>>)
OneScore == OkFile(<<ScoreRowOf(<<2024, 3, 10>>, "Men's", JaneDoe, JohnSmith, GoodTotals)>>)

\* Lists of at most n files with distinct dates, each with one of the contents.
FileLists(contents, n) ==
    {fl \in SeqUpTo({TournamentFile(d, "M", c[1], c[2]) : d \in FileDates, c \in contents}, n) :
        \A i, j \in 1..Len(fl) : i /= j => fl[i].date /= fl[j].date}

InitState ==
    /\ players = <<>> /\ tournaments = <<>> /\ results = <<>> /\ nextId = 1
    /\ marker = 0
    /\ pc = "idle" /\ run = 0 /\ fileIdx = 1 /\ phases = {}
    /\ storeOps = 0 /\ markerAtStart = 0 /\ lastBulk = "none" /\ history = <<>>
    /\ notFound = NoCount
    /\ backendUp = FALSE /\ requests = 0
    /\ deleting = NoRequest /\ creating = NoRequest /\ deleted = {}
    /\ other = NotStarted
    /\ reply = NoReply

\* Deployments that differ in the per-tournament files.
InitFiles ==
    /\ variant \in {"simple", "legacy"}
    /\ rejectNames = {}
    /\ strictResults = FALSE
    /\ playersFile = BothPlayers
    /\ championsFile = SomeChampions
    /\ scoresFile \in {AbsentFile, OneScore}
    /\ files \in FileLists({<<"ok", <<GoodRow(JaneDoe, JohnSmith)>>>>, <<"malformed", <<>>>>},
                           MaxFiles)

\* Deployments that differ in All Players.json and in what the store rejects.
InitPlayers ==
    /\ variant \in {"simple", "legacy"}
    /\ rejectNames \in {{}, {JohnSmith}}
    /\ strictResults = FALSE
    /\ playersFile \in {AbsentFile, MalformedFile}
                       \cup {OkFile(r) : r \in SeqUpTo(PlayerRowSet, MaxPlayerRows)}
    /\ championsFile = AbsentFile
    /\ scoresFile = AbsentFile
    /\ files = <<TournamentFile(<<2024, 7, 20>>, "M", "ok", <<GoodRow(JaneDoe, JohnSmith)>>)>>

\* Deployments that differ in the team rows of one file.
InitRows ==
    /\ variant \in {"simple", "legacy"}
    /\ rejectNames = {}
    /\ strictResults \in (IF variant = "legacy" THEN BOOLEAN ELSE {FALSE})
    /\ playersFile \in {BothPlayers, OnlyJane}
    /\ championsFile = AbsentFile
    /\ scoresFile = AbsentFile
    /\ files \in {<<TournamentFile(<<2024, 7, 20>>, "M", "ok", r)>> :
                    r \in SeqUpTo(TeamRowSet, MaxTeamRows)}

\* Deployments that differ in the rows of All Scores.json.
InitScores ==
    /\ variant \in {"simple", "legacy"}
    /\ rejectNames = {}
    /\ strictResults = FALSE
    /\ playersFile \in {BothPlayers, OnlyJane}
    /\ championsFile \in {AbsentFile, MalformedFile}
    /\ scoresFile \in {MalformedFile} \cup {OkFile(r) : r \in SeqUpTo(ScoreRowSet, MaxScoreRows)}
    /\ files = <<TournamentFile(<<2024, 7, 20>>, "M", "ok", <<GoodRow(JaneDoe, JohnSmith)>>)>>

\* Deployments that differ in the statistics of the one row of All Players.json.
StatsRowSet ==
    {StatsRow(JaneDoe, played, won, pct, best, avg) :
        played \in {StdPlayed, <<"0">>},
        won \in {StdWon, <<"1", "2">>, <<"-", "3">>},
        pct \in {<<"0", ".", "7">>, <<"1", ".", "5">>},
        best \in {<<"1">>, <<"3">>, <<"5">>, <<>>},
        avg \in {<<"2", ".", "5">>, <<>>}}

InitStats ==
    /\ variant \in {"simple", "legacy"}
    /\ rejectNames = {}
    /\ strictResults = FALSE
    /\ playersFile \in {OkFile(<<r>>) : r \in StatsRowSet}
    /\ championsFile = AbsentFile
    /\ scoresFile = AbsentFile
    /\ files = <<>>

\* Deployments whose one file has summary rows among its team rows.
TiebreakersRow == TeamRowOf(<<"Tiebreakers">>, "2024-07-20", JaneDoe, JohnSmith, GoodTotals)
HomeRow == TeamRowOf(<<JaneDoe, JohnSmith>>, "Home", JaneDoe, JohnSmith, GoodTotals)
NullDateRow == TeamRowOf(<<JaneDoe, JohnSmith>>, NullV, JaneDoe, JohnSmith, GoodTotals)
UndatedRow == TeamRowOf(<<JaneDoe, JohnSmith>>, "", JaneDoe, JohnSmith, GoodTotals)

FilteredRowSet ==
    {TiebreakersRow, HomeRow, NullDateRow, UndatedRow, ScenarioRow, GoodRow(JaneDoe, JohnSmith)}

InitSummaryRows ==
    /\ variant \in {"simple", "legacy"}
    /\ rejectNames = {}
    /\ strictResults = FALSE
    /\ playersFile = BothPlayers
    /\ championsFile = AbsentFile
    /\ scoresFile = AbsentFile
    /\ files \in {<<TournamentFile(<<2024, 7, 20>>, "M", "ok", r)>> :
                    r \in SeqUpTo(FilteredRowSet, MaxTeamRows)}

\* Deployments whose one file has rows of the old format: a team name, which
\* is given by its parts between the delimiters " & ", and no player columns.
LegacyRow(teams) == TeamRowOf(teams, "2024-07-20", "", "", GoodTotals)

LegacyRowSet ==
    {LegacyRow(t) : t \in {<<JaneDoe, JohnSmith>>, <<JohnSmith, JaneDoe>>,
                           <<"Jane Doe ", " John Smith">>,
                           <<"Jane Doe, John Smith">>,
                           <<JaneDoe, JohnSmith, JaneDoe>>}}

InitLegacyRows ==
    /\ variant \in {"simple", "legacy"}
    /\ rejectNames = {}
    /\ strictResults = FALSE
    /\ playersFile = BothPlayers
    /\ championsFile = AbsentFile
    /\ scoresFile = AbsentFile
    /\ files \in {<<TournamentFile(<<2024, 7, 20>>, "M", "ok", r)>> :
                    r \in SeqUpTo(LegacyRowSet, MaxTeamRows)}

\* Deployments that differ in the totals, the seed and the round robin
\* columns of the one team row.
CounterRowSet ==
    {WithRoundRobin(base, seed, rrPlayed, rrPct) :
        base \in {GoodRow(JaneDoe, JohnSmith), BadRow(JaneDoe, JohnSmith)},
        seed \in {<<"3">>, <<"a">>, <<>>},
        rrPlayed \in {<<"4">>, <<>>},
        rrPct \in {<<"0", ".", "5">>, <<"0", ".", "9">>, <<>>}}

InitCounters ==
    /\ variant \in {"simple", "legacy"}
    /\ rejectNames = {}
    /\ strictResults = FALSE
    /\ playersFile = BothPlayers
    /\ championsFile = AbsentFile
    /\ scoresFile = AbsentFile
    /\ files \in {<<TournamentFile(<<2024, 7, 20>>, "M", "ok", <<r>>)>> : r \in CounterRowSet}

\* Deployments that differ in the token of the name of the one file.
TokenSet == {"M", "W", "Mixed", "MixedDoubles", "Men", "Womens", "X", ""}

InitTokens ==
    /\ variant \in {"simple", "legacy"}
    /\ rejectNames = {}
    /\ strictResults = FALSE
    /\ playersFile = BothPlayers
    /\ championsFile = AbsentFile
    /\ scoresFile = AbsentFile
    /\ files \in {<<TournamentFile(<<2024, 7, 20>>, token, "ok", <<GoodRow(JaneDoe, JohnSmith)>>)>> :
                    token \in TokenSet}

Init ==
    InitState /\ authorizedUsers = EnvUnset
              /\ (InitFiles \/ InitPlayers \/ InitRows \/ InitScores \/ InitStats
                     \/ InitSummaryRows \/ InitLegacyRows \/ InitCounters \/ InitTokens)

Spec == Init /\ [][Next]_vars

\* The import together with the requests to the backend, for deployments
\* whose one file names the same team up to twice.
InitApi ==
    /\ InitState
    /\ authorizedUsers = EnvUnset
    /\ variant \in {"simple", "legacy"}
    /\ rejectNames = {}
    /\ strictResults = FALSE
    /\ playersFile = BothPlayers
    /\ championsFile = SomeChampions
    /\ scoresFile \in {AbsentFile, OneScore}
    /\ files \in {<<TournamentFile(<<2024, 7, 20>>, "M", "ok", r)>> :
                    r \in SeqUpTo({GoodRow(JaneDoe, JohnSmith), GoodRow(JohnSmith, JaneDoe)},
                                  MaxTeamRows)}

NextApi == Next \/ BulkImportRequest

SpecApi == InitApi /\ [][NextApi]_vars

\* The import together with delete requests and result-creating requests
\* that the backend serves at the same time, for deployments with one
\* per-tournament file.
InitDelete ==
    /\ InitState
    /\ authorizedUsers = EnvUnset
    /\ variant \in {"simple", "legacy"}
    /\ rejectNames = {}
    /\ strictResults = FALSE
    /\ playersFile = BothPlayers
    /\ championsFile = AbsentFile
    /\ scoresFile = AbsentFile
    /\ files = <<TournamentFile(<<2024, 7, 20>>, "M", "ok", <<GoodRow(JaneDoe, JohnSmith)>>)>>

NextDelete ==
    \/ Next
    \/ DeleteFind
    \/ DeleteCount
    \/ DeleteResults
    \/ DeleteTournament
    \/ CreateFind
    \/ CreateStore

SpecDelete == InitDelete /\ [][NextDelete]_vars

\* Two invocations of simpleImport on one store and one status file.
InitRace ==
    /\ InitState
    /\ authorizedUsers = EnvUnset
    /\ variant = "simple"
    /\ rejectNames = {}
    /\ strictResults = FALSE
    /\ playersFile \in {BothPlayers, OnlyJane, AbsentFile}
    /\ championsFile \in {AbsentFile, SomeChampions}
    /\ scoresFile \in {AbsentFile, OneScore}
    /\ files \in {<<>>, <<TournamentFile(<<2024, 7, 20>>, "M", "ok", <<GoodRow(JaneDoe, JohnSmith)>>)>>}

NextRace ==
    \/ Next
    \/ OtherStart
    \/ OtherDrop
    \/ OtherScan
    \/ OtherInsert
    \/ OtherChampions
    \/ OtherScores
    \/ OtherFile
    \/ OtherMarker

SpecRace == InitRace /\ [][NextRace]_vars

\* The import together with the requests to the protected routes, for
\* deployments that differ in AUTHORIZED_USERS.
EnvSet == {EnvUnset, <<"">>, <<"user@example.com">>, <<"test@example.com", " Admin@Example.com ">>}

InitAuth ==
    /\ InitState
    /\ authorizedUsers \in EnvSet
    /\ variant \in {"simple", "legacy"}
    /\ rejectNames = {}
    /\ strictResults = FALSE
    /\ playersFile = BothPlayers
    /\ championsFile = SomeChampions
    /\ scoresFile = AbsentFile
    /\ files = <<TournamentFile(<<2024, 7, 20>>, "M", "ok", <<GoodRow(JaneDoe, JohnSmith)>>)>>

NextAuth == Next \/ UpdateStatsRequest \/ MigrationStatusRequest

SpecAuth == InitAuth /\ [][NextAuth]_vars

\* The import together with the requests that create a tournament.
InitCreate ==
    /\ InitState
    /\ authorizedUsers = EnvUnset
    /\ variant \in {"simple", "legacy"}
    /\ rejectNames = {}
    /\ strictResults = FALSE
    /\ playersFile = BothPlayers
    /\ championsFile = SomeChampions
    /\ scoresFile \in {AbsentFile, OneScore}
    /\ files = <<TournamentFile(<<2024, 7, 20>>, "M", "ok", <<GoodRow(JaneDoe, JohnSmith)>>)>>

NextCreate == Next \/ CreateTournamentRequest

SpecCreate == InitCreate /\ [][NextCreate]_vars

\* The import together with the requests for performance trends, for
\* deployments that differ in the statistics of the one row of All
\* Players.json.
InitTrends ==
    /\ InitState
    /\ authorizedUsers = EnvUnset
    /\ variant \in {"simple", "legacy"}
    /\ rejectNames = {}
    /\ strictResults = FALSE
    /\ playersFile \in {OkFile(<<r>>) : r \in StatsRowSet}
    /\ championsFile = AbsentFile
    /\ scoresFile \in {AbsentFile, OneScore}
    /\ files = <<TournamentFile(<<2024, 7, 20>>, "M", "ok", <<GoodRow(JaneDoe, JohnSmith)>>)>>

NextTrends == Next \/ GetPerformanceTrends

SpecTrends == InitTrends /\ [][NextTrends]_vars

\* The import with a players file that is edited between the invocations
\* (./json/fixed is mounted on /app/data).
LaterPlayed == <<"1", "2">>
LaterWon == <<"9">>

EditedRowSet ==
    {PlayerRow(n, c[1], c[2]) : n \in {JaneDoe, JohnSmith},
                                c \in {<<StdPlayed, StdWon>>, <<LaterPlayed, LaterWon>>}}

EditPlayersFile ==
    /\ pc = "idle"
    /\ history /= <<>>
    /\ run < MaxRuns
    /\ \E r \in SeqUpTo(EditedRowSet, MaxPlayerRows) \ {<<>>} :
          /\ OkFile(r) /= playersFile
          /\ playersFile' = OkFile(r)
    /\ UNCHANGED <<variant, rejectNames, strictResults, championsFile, scoresFile, files,
                   authorizedUsers, storeVars, marker, runVars, backendUp, requests, inflight>>

InitEdit ==
    /\ InitState
    /\ authorizedUsers = EnvUnset
    /\ variant \in {"simple", "legacy"}
    /\ rejectNames = {}
    /\ strictResults = FALSE
    /\ playersFile \in {BothPlayers, OnlyJane}
    /\ championsFile = AbsentFile
    /\ scoresFile = AbsentFile
    /\ files = <<TournamentFile(<<2024, 7, 20>>, "M", "ok", <<GoodRow(JaneDoe, JohnSmith)>>)>>

NextEdit == Next \/ EditPlayersFile

SpecEdit == InitEdit /\ [][NextEdit]_vars

\* ------------------------------------------------------------------------
\* Properties
\* ------------------------------------------------------------------------
Last(seq) == seq[Len(seq)]

\* An invocation that ran to its end: it wrote the marker or found it.
Completed(e) == e.outcome \in {"done", "skipped"}

\* C1: when two invocations in a row both run to their end and no request
\* is served between them, the store holds as many players, tournaments and
\* tournament results after the second as after the first.
C1_SecondRunKeepsCounts ==
    \A i \in 1..(Len(history) - 1) :
        (Completed(history[i]) /\ Completed(history[i + 1])
            /\ history[i].requests = history[i + 1].requests)
        => /\ history[i + 1].players = history[i].players
           /\ history[i + 1].tournaments = history[i].tournaments
           /\ history[i + 1].results = history[i].results

\* Two full passes in a row (the marker was removed in between) over a
\* store that holds players, tournaments and results.
C1_Witness ==
    /\ Len(history) >= 2
    /\ history[1].outcome = "done" /\ history[2].outcome = "done"
    /\ history[2].requests = 0
    /\ history[2].players > 0 /\ history[2].tournaments > 0 /\ history[2].results > 0

\* C2: an invocation that starts while the marker exists ends at once: it
\* issues no store command, changes no collection and leaves the marker.
C2_MarkerShortCircuits ==
    [][(run' = run + 1 /\ marker /= 0)
        => (pc' = "idle" /\ storeOps' = 0 /\ marker' = marker /\ storeVars' = storeVars)]_vars

\* The phases an invocation of the script has to finish before the marker.
RequiredPhases ==
    IF variant = "simple" THEN {"players", "champions", "scores", "files"}
    ELSE {"players", "files"}

\* C3: the marker is written only when every phase and every file of the
\* invocation is done; the step that ends an invocation with a fatal error
\* leaves the marker alone and removes no stored document.
C3_MarkerAfterAllPhases ==
    [][/\ (marker' /= marker /\ marker' /= 0)
            => (RequiredPhases \subseteq phases' /\ fileIdx > Len(files))
       /\ (Len(history') > Len(history) /\ Last(history').outcome = "failed")
            => (/\ marker' = marker
                /\ IdsOf(players) \subseteq IdsOf(players')
                /\ IdsOf(tournaments) \subseteq IdsOf(tournaments')
                /\ IdsOf(results) \subseteq IdsOf(results'))]_vars

\* An invocation failed after it had stored players, and no marker exists.
C3_Witness ==
    /\ history /= <<>>
    /\ Last(history).outcome = "failed"
    /\ Len(players) > 0 /\ Len(tournaments) > 0
    /\ marker = 0

\* C4: once the players phase is done, every row name that the store does
\* not reject has exactly one stored player of that name, ignoring case.
C4_OnePlayerPerName ==
    ("players" \in phases /\ playersFile.status = "ok")
    => \A i \in 1..Len(playersFile.rows) :
          LET n == FullNameOf(playersFile.rows[i])
          IN (~IsBlankName(n) /\ n \notin rejectNames)
             => Cardinality({j \in 1..Len(players) : LowerOf(players[j].name) = LowerOf(n)}) = 1

\* C5: every stored tournament result has totalWon + totalLost = totalPlayed
\* and a win percentage between 0 and 1.
C5_TotalsInvariant ==
    \A i \in 1..Len(results) : TotalsOk(results[i])

\* C6: no two stored tournaments have the same bodNumber.
C6_UniqueBodNumber ==
    \A i, j \in 1..Len(tournaments) :
        i /= j => tournaments[i].bodNumber /= tournaments[j].bodNumber

\* C7: importing a per-tournament file whose identifying number a stored
\* tournament already has creates no tournament and no tournament result.
C7_CollidingFileSkipped ==
    [][(pc = "files" /\ fileIdx' = fileIdx + 1
            /\ FindTournament(tournaments, BodNumberOf(files[fileIdx].date)) /= 0)
        => (tournaments' = tournaments /\ results' = results)]_vars

\* The set of the players of a stored result.
PlayerSet(r) == {r.players[k] : k \in 1..Len(r.players)}

\* C8: no two stored tournament results have the same tournament and the
\* same set of players.
C8_OneResultPerTeam ==
    \A i, j \in 1..Len(results) :
        (i /= j /\ results[i].tournamentId = results[j].tournamentId)
        => PlayerSet(results[i]) /= PlayerSet(results[j])

\* The first invocation has run to its end on the empty store and nothing
\* has happened since.
FirstRunDone == Len(history) = 1 /\ history[1].outcome = "done" /\ run = 1 /\ requests = 0

\* The files of the end-to-end scenario: the players file with the one row
\* of Jane Doe, and 2024-07-20 M.json with the one row of the scenario; the
\* store rejects no player.
ScenarioFiles ==
    /\ rejectNames = {}
    /\ playersFile = OnlyJane
    /\ championsFile = AbsentFile /\ scoresFile = AbsentFile
    /\ files = <<TournamentFile(<<2024, 7, 20>>, "M", "ok", <<ScenarioRow>>)>>

\* The scenario with a team name and a date in the row.
NamedTeamScenarioFiles ==
    /\ rejectNames = {}
    /\ playersFile = OnlyJane
    /\ championsFile = AbsentFile /\ scoresFile = AbsentFile
    /\ files = <<TournamentFile(<<2024, 7, 20>>, "M", "ok", <<GoodRow(JaneDoe, JohnSmith)>>)>>

\* The same scenario with John Smith in the players file and a team name
\* and a date in the row.
CompletedScenarioFiles ==
    /\ rejectNames = {}
    /\ playersFile = BothPlayers
    /\ championsFile = AbsentFile /\ scoresFile = AbsentFile
    /\ files = <<TournamentFile(<<2024, 7, 20>>, "M", "ok", <<GoodRow(JaneDoe, JohnSmith)>>)>>

\* The stored names of the players a result references.
NamesOf(r) == {players[j].name : j \in {k \in 1..Len(players) : players[k].id \in PlayerSet(r)}}

JaneStored ==
    \E j \in 1..Len(players) :
        players[j].name = JaneDoe /\ players[j].gamesWon = 7 /\ players[j].gamesPlayed = 10

\* One tournament 202407 of format M and one result of Jane Doe and John
\* Smith with the totals of the row.
ScenarioTournamentAndResult ==
    /\ Len(tournaments) = 1
    /\ tournaments[1].bodNumber = 202407 /\ tournaments[1].format = "M"
    /\ Len(results) = 1
    /\ results[1].tournamentId = tournaments[1].id
    /\ Len(results[1].players) = 2 /\ NamesOf(results[1]) = {JaneDoe, JohnSmith}
    /\ results[1].totalWon = 12 /\ results[1].totalLost = 4 /\ results[1].totalPlayed = 16
    /\ results[1].winPercentage = 75 /\ results[1].bodFinish = 1

\* C9 as stated: the scenario ends with the player Jane Doe, the tournament
\* 202407 and the result of the row.
C9_ScenarioAsStated ==
    (ScenarioFiles /\ FirstRunDone)
    => (Len(players) = 1 /\ JaneStored /\ ScenarioTournamentAndResult)

\* C9 as amended: the scenario ends with the one player Jane Doe (7 of 10
\* games won), no tournament and no tournament result; with a team name
\* and a date in the row it ends with the tournament 202407 of format M
\* and no result; the tournament and the result of the row are stored
\* when John Smith is a row of the players file as well.
C9_ScenarioAsCoded ==
    /\ (ScenarioFiles /\ FirstRunDone)
        => (Len(players) = 1 /\ JaneStored /\ tournaments = <<>> /\ results = <<>>)
    /\ (NamedTeamScenarioFiles /\ FirstRunDone)
        => (/\ Len(players) = 1 /\ JaneStored /\ results = <<>>
            /\ Len(tournaments) = 1
            /\ tournaments[1].bodNumber = 202407 /\ tournaments[1].format = "M")
    /\ (CompletedScenarioFiles /\ FirstRunDone)
        => (Len(players) = 2 /\ JaneStored /\ ScenarioTournamentAndResult)

\* The scenario has run to its end under the deployed script.
C9_Witness == ScenarioFiles /\ FirstRunDone /\ variant = "simple" /\ Len(players) = 1

\* The batch of the step that is about to run, and what the store rejects.
StepIsPlayers == pc = "players" /\ pc' /= pc
StepIsFile == pc = "files" /\ fileIdx' = fileIdx + 1
BulkFailed == lastBulk' \in {"validation", "other"}
StepBatch ==
    IF pc = "players"
    THEN (IF variant = "simple" THEN PlayerBatch(playersFile.rows, players, nextId)
          ELSE PlayerBatchLegacy(playersFile.rows, players, nextId))
    ELSE (IF variant = "simple" THEN TeamBatch(files[fileIdx], players, nextId)
          ELSE TeamBatchLegacy(files[fileIdx], players, nextId))
StepRejected == IF pc = "players" THEN PlayerRejected(StepBatch) ELSE ResultRejected(StepBatch)

\* Every record of the batch the store accepts is in coll once, every
\* record it rejects is not in it.
OnceEach(coll, docs, rej) ==
    \A i \in 1..Len(docs) :
        Cardinality({j \in 1..Len(coll) : coll[j].id = docs[i].id}) = IF i \in rej THEN 0 ELSE 1

StoredOnceEach ==
    OnceEach(IF pc = "players" THEN players' ELSE results', StepBatch, StepRejected)

\* C10 as stated: whatever makes the bulk insert of a batch fail, the
\* invocation goes on and every accepted record is stored exactly once.
C10_FallbackAsStated ==
    [][((StepIsPlayers \/ StepIsFile) /\ BulkFailed)
        => (history' = history /\ StoredOnceEach)]_vars

\* C10 as amended: the same, except that importPlayers of importData falls
\* back only on a validation failure (error code 121); any other bulk
\* failure there ends the invocation with a fatal error.
C10_FallbackAsCoded ==
    [][((StepIsPlayers \/ StepIsFile) /\ BulkFailed)
        => IF variant = "legacy" /\ pc = "players" /\ lastBulk' = "other"
           THEN Len(history') = Len(history) + 1 /\ Last(history').outcome = "failed"
           ELSE history' = history /\ StoredOnceEach]_vars

\* A bulk insert of players has failed on a record the store rejects, after
\* it had stored a record; the invocation is going on.
C10_Witness ==
    /\ lastBulk = "validation" /\ pc = "files"
    /\ rejectNames /= {} /\ Len(players) = 1

\* The ids of the results a step has added.
AddedResults == IdsOf(results') \ IdsOf(results)

\* The step imports a per-tournament file whose row loop reaches a row
\* that names a player the store does not hold.
FileRowNamesMissingPlayer ==
    /\ StepIsFile
    /\ files[fileIdx].status = "ok"
    /\ IF variant = "simple"
       THEN playersNotFound(files[fileIdx].rows, players) > 0
       ELSE /\ failureCount(files[fileIdx].rows, players) > 0
            /\ FindTournament(tournaments, BodNumberOf(files[fileIdx].date)) = 0

\* The rows of the file of the step both of whose players are stored.
FileRowsFound ==
    {i \in 1..Len(files[fileIdx].rows) :
        IF variant = "simple"
        THEN ValidTeam(files[fileIdx].rows[i])
             /\ BothFound(players, RowNames(files[fileIdx].rows[i]))
        ELSE ValidTeamLegacy(files[fileIdx].rows[i])
             /\ BothFound(players, RowNamesLegacy(files[fileIdx].rows[i]))}

\* The step imports All Scores.json, which has a row that names a player
\* the store does not hold.
ScoreRowNamesMissingPlayer ==
    /\ pc = "scores" /\ pc' /= pc
    /\ scoresFile.status = "ok"
    /\ \E i \in 1..Len(scoresFile.rows) :
          ValidScore(scoresFile.rows[i])
          /\ ~BothFound(players, <<scoresFile.rows[i].p1, scoresFile.rows[i].p2>>)

ScoreRowsFound ==
    {i \in 1..Len(scoresFile.rows) :
        ValidScore(scoresFile.rows[i])
        /\ BothFound(players, <<scoresFile.rows[i].p1, scoresFile.rows[i].p2>>)}

\* C11: a step that meets a team row naming a player the store does not
\* hold stores a result for no such row, ends without a fatal error, goes
\* on with the next file, and logs a count of players not found that is
\* at least one; this for the rows of a per-tournament file and for the
\* rows of All Scores.json.
C11_MissingPlayerRowDropped ==
    [][/\ FileRowNamesMissingPlayer
            => (/\ Cardinality(AddedResults) <= Cardinality(FileRowsFound)
                /\ history' = history /\ pc' = "files"
                /\ notFound'.logged /\ notFound'.count >= 1)
       /\ ScoreRowNamesMissingPlayer
            => (/\ Cardinality(AddedResults) <= Cardinality(ScoreRowsFound)
                /\ history' = history /\ pc' = "files"
                /\ notFound'.logged /\ notFound'.count >= 1)]_vars

\* The rows of the players file whose name no other row has and a stored
\* player has, with other counters than the row gives.
RowsOfChangedPlayers ==
    {i \in 1..Len(playersFile.rows) :
        LET n == FullNameOf(playersFile.rows[i])
            k == FindPlayer(players, n)
        IN /\ ~IsBlankName(n)
           /\ \A j \in 1..Len(playersFile.rows) : FullNameOf(playersFile.rows[j]) = n => j = i
           /\ k /= 0
           /\ (players[k].gamesPlayed /= parseIntOr0(playersFile.rows[i].gamesPlayed)
               \/ players[k].gamesWon /= parseIntOr0(playersFile.rows[i].gamesWon))}

\* C12: a players import that meets a row whose name is stored with other
\* counters ends with that stored player holding the row's counters, and
\* with as many players of the name as before.
C12_CountersUpdatedInPlace ==
    [][(StepIsPlayers /\ playersFile.status = "ok" /\ history' = history)
        => \A i \in RowsOfChangedPlayers :
              LET n == FullNameOf(playersFile.rows[i])
                  k == FindPlayer(players, n)
              IN /\ players'[k].name = n
                 /\ players'[k].gamesPlayed = parseIntOr0(playersFile.rows[i].gamesPlayed)
                 /\ players'[k].gamesWon = parseIntOr0(playersFile.rows[i].gamesWon)
                 /\ Cardinality({j \in 1..Len(players') : players'[j].name = n})
                      = Cardinality({j \in 1..Len(players) : players[j].name = n})]_vars

\* The (date, format) combinations of the sources: the per-tournament
\* files that hold a valid row, and under simple-data-import.js the valid
\* rows of All Scores.json.
FileCombinations ==
    {<<files[i].date,
       IF variant = "simple" THEN FormatOfToken(files[i].token)
       ELSE FormatOfTokenLegacy(files[i].token)>> :
        i \in {j \in 1..Len(files) :
                 /\ files[j].status = "ok"
                 /\ \E k \in 1..Len(files[j].rows) :
                       IF variant = "simple" THEN ValidTeam(files[j].rows[k])
                       ELSE ValidTeamLegacy(files[j].rows[k])}}

ScoreCombinations ==
    IF variant = "simple" /\ scoresFile.status = "ok"
    THEN {<<scoresFile.rows[i].date, FormatOfRow(scoresFile.rows[i].format)>> :
            i \in {j \in 1..Len(scoresFile.rows) : ValidScore(scoresFile.rows[j])}}
    ELSE {}

\* C13: when the first invocation has run to its end, every (date, format)
\* combination of the sources has exactly one stored tournament of that
\* date and format.
C13_OneTournamentPerDateAndFormat ==
    FirstRunDone
    => \A c \in FileCombinations \cup ScoreCombinations :
          Cardinality({j \in 1..Len(tournaments) :
                          tournaments[j].date = c[1] /\ tournaments[j].format = c[2]}) = 1

\* C14: no stored tournament result references a tournament that a delete
\* request has removed.
C14_NoResultOfDeletedTournament ==
    \A i \in 1..Len(results) : results[i].tournamentId \notin deleted

\* The invocations ran at the same time: the second started while the first
\* was running, or the first started while the second was running.
Overlapped ==
    /\ other.pc /= "idle"
    /\ \/ other.busyAtStart
       \/ (IF OtherRuns THEN run ELSE other.runAtEnd) > other.runAtStart

PlayerNameTwice == \E i, j \in 1..Len(players) : i < j /\ players[i].name = players[j].name
BodNumberTwice ==
    \E i, j \in 1..Len(tournaments) : i < j /\ tournaments[i].bodNumber = tournaments[j].bodNumber

BothEnded == pc = "idle" /\ run >= 1 /\ other.pc = "done" /\ history[Len(history)].outcome = "done"

\* C15: the marker check is no lock. A store that holds a player name or a
\* tournament number twice comes from two invocations that ran at the same
\* time, the second of which found no marker when it started.
C15_DuplicatesComeFromTheRace ==
    (PlayerNameTwice \/ BodNumberTwice) => (Overlapped /\ other.markerAtStart = 0)

\* C15 witness: both invocations found no marker, ran at the same time and
\* wrote the marker, and the store holds a player name twice and a
\* tournament number twice.
C15_BothRanAndDoubled ==
    /\ BothEnded
    /\ Overlapped
    /\ markerAtStart = 0
    /\ other.markerAtStart = 0
    /\ PlayerNameTwice
    /\ BodNumberTwice

\* The running invocation is about to read a file that holds malformed JSON.
MalformedRead ==
    \/ pc = "players" /\ playersFile.status = "malformed"
    \/ pc = "champions" /\ championsFile.status = "malformed"
    \/ pc = "scores" /\ scoresFile.status = "malformed"
    \/ pc = "files" /\ fileIdx <= Len(files) /\ files[fileIdx].status = "malformed"

\* C16: the step that reads a malformed per-tournament or aggregate file
\* ends the invocation as failed: the store and the marker stay as they
\* are, and no later file is processed.
C16_MalformedFileAborts ==
    [][MalformedRead =>
          /\ pc' = "idle"
          /\ history' = Append(history, Entry("failed", players, tournaments, results))
          /\ UNCHANGED <<storeVars, marker>>]_vars

\* The running invocation is about to look for an aggregate file that is absent.
AbsentRead ==
    \/ pc = "players" /\ playersFile.status = "absent"
    \/ pc = "champions" /\ championsFile.status = "absent"
    \/ pc = "scores" /\ scoresFile.status = "absent"

\* C17: the phase of an absent aggregate file ends without an error and
\* without a store command: the store, the marker and the log of ended
\* invocations stay as they are, and the invocation goes on to its next phase.
C17_AbsentFileSkipsPhase ==
    [][AbsentRead =>
          /\ pc' = (IF pc = "scores" \/ variant /= "simple" THEN "files"
                    ELSE IF pc = "players" THEN "champions" ELSE "scores")
          /\ phases' = phases \cup {pc}
          /\ storeOps' = storeOps
          /\ UNCHANGED <<storeVars, marker, history>>]_vars

\* C17 witness: an invocation without any aggregate file went through all
\* its phases and wrote the marker.
C17_DoneWithoutAggregateFiles ==
    /\ playersFile.status = "absent"
    /\ championsFile.status = "absent"
    /\ scoresFile.status = "absent"
    /\ variant = "simple"
    /\ pc = "idle"
    /\ phases = {"players", "champions", "scores", "files"}
    /\ marker = run
    /\ history /= <<>>
    /\ history[Len(history)].outcome = "done"

\* C18: a bulk-import request with N records, N at least 1, is answered with
\* success, and the counters of its answer add up to N.
C18_EveryRecordCounted ==
    (creating.step = "none" /\ creating.records > 0)
    => /\ creating.status = 200
       /\ creating.created + creating.updated + creating.errors = creating.records

\* C19: every stored player has gamesWon <= gamesPlayed, a winning
\* percentage from 0 to 1, and bestResult <= avgFinish.
C19_PlayerStatisticsInvariants ==
    \A i \in 1..Len(players) :
        /\ players[i].gamesWon <= players[i].gamesPlayed
        /\ 0 <= players[i].winningPercentage
        /\ players[i].winningPercentage <= 100
        /\ players[i].bestResult <= players[i].avgFinish

\* A summary row: its date is null or the literal Home, or its team name is
\* the literal Tiebreakers.
SummaryRow(team) ==
    team.date = NullV \/ team.date = "Home" \/ team.teams = <<"Tiebreakers">>

\* A row that has a team name and a date and names its two players in the
\* Player 1 and Player 2 columns.
NamedDatedRow(team) ==
    /\ ~SummaryRow(team)
    /\ team.teams /= <<>> /\ team.date /= ""
    /\ team.p1 /= "" /\ team.p2 /= ""

\* The rows of the file of the step that its filter keeps.
KeptRows ==
    {i \in 1..Len(files[fileIdx].rows) :
        IF variant = "simple" THEN ValidTeam(files[fileIdx].rows[i])
        ELSE ValidTeamLegacy(files[fileIdx].rows[i])}

StepIsReadableFile == StepIsFile /\ files[fileIdx].status = "ok"

NoResultFromSummaryRow ==
    /\ \A i \in 1..Len(files[fileIdx].rows) :
           SummaryRow(files[fileIdx].rows[i]) => i \notin KeptRows
    /\ Cardinality(AddedResults)
         <= Cardinality({i \in 1..Len(files[fileIdx].rows) : ~SummaryRow(files[fileIdx].rows[i])})

\* C20 as stated: no result comes from a summary row, and every row that is
\* no summary row and names its two players in the Player 1 and Player 2
\* columns is kept.
C20_SummaryRowsOutPlayerRowsIn ==
    [][StepIsReadableFile =>
          /\ NoResultFromSummaryRow
          /\ \A i \in 1..Len(files[fileIdx].rows) :
                (/\ ~SummaryRow(files[fileIdx].rows[i])
                 /\ files[fileIdx].rows[i].p1 /= ""
                 /\ files[fileIdx].rows[i].p2 /= "") => i \in KeptRows]_vars

\* C20 as amended: no result comes from a summary row, and every row that
\* has a team name other than Tiebreakers, a date other than null and Home,
\* and its two players in the Player 1 and Player 2 columns is kept.
C20_SummaryRowsOutNamedRowsIn ==
    [][StepIsReadableFile =>
          /\ NoResultFromSummaryRow
          /\ \A i \in 1..Len(files[fileIdx].rows) :
                NamedDatedRow(files[fileIdx].rows[i]) => i \in KeptRows]_vars

\* C20 witness: the file with the Tiebreakers row and a team row has been
\* imported, and the store holds the one result of the team row.
C20_TeamRowKeptBesideTiebreakers ==
    /\ files = <<TournamentFile(<<2024, 7, 20>>, "M", "ok",
                                <<TiebreakersRow, GoodRow(JaneDoe, JohnSmith)>>)>>
    /\ FirstRunDone
    /\ Len(tournaments) = 1
    /\ Len(results) = 1

\* The rows of the file of the step are rows of the old format.
StepIsLegacyRows ==
    /\ StepIsReadableFile
    /\ \A i \in 1..Len(files[fileIdx].rows) :
          files[fileIdx].rows[i].p1 = "" /\ files[fileIdx].rows[i].p2 = ""

\* The player ids of the two names, <<>> unless both are stored.
IdsOfNames(a, b) ==
    IF FindPlayer(players, a) = 0 \/ FindPlayer(players, b) = 0 THEN <<>>
    ELSE <<players[FindPlayer(players, a)].id, players[FindPlayer(players, b)].id>>

\* C21: every result stored from rows of the old format comes from a team
\* name that splits on " & " into exactly two parts, and its players are
\* the players named by the first and by the second part, trimmed, in this
\* order; a team name of one part or of three parts gives no result.
C21_TwoPartsInOrder ==
    [][StepIsLegacyRows =>
          /\ \A k \in 1..Len(results') :
                results'[k].id \in AddedResults
                => \E i \in 1..Len(files[fileIdx].rows) :
                      /\ Len(files[fileIdx].rows[i].teams) = 2
                      /\ results'[k].players
                           = IdsOfNames(Trim(files[fileIdx].rows[i].teams[1]),
                                        Trim(files[fileIdx].rows[i].teams[2]))
          /\ Cardinality(AddedResults)
               <= Cardinality({i \in 1..Len(files[fileIdx].rows) :
                                  Len(files[fileIdx].rows[i].teams) = 2})]_vars

\* C21 witness: the file with the team names "Jane Doe, John Smith" and
\* "John Smith & Jane Doe" has been imported, and the one stored result has
\* John Smith as its first and Jane Doe as its second player.
C21_SplitRowStoredCommaRowDropped ==
    /\ files = <<TournamentFile(<<2024, 7, 20>>, "M", "ok",
                                <<LegacyRow(<<"Jane Doe, John Smith">>),
                                  LegacyRow(<<JohnSmith, JaneDoe>>)>>)>>
    /\ FirstRunDone
    /\ Len(results) = 1
    /\ results[1].players = IdsOfNames(JohnSmith, JaneDoe)

\* The totals of a row violate totalWon + totalLost = totalPlayed.
TotalsViolated(row) ==
    parseIntOr0(row.won) + parseIntOr0(row.lost) /= parseIntOr0(row.played)

\* The stored counters are the parsed values of the row; a value the row
\* does not have is one the import may compute.
AsParsed(r, row) ==
    /\ r.totalWon = parseIntOr0(row.won)
    /\ r.totalLost = parseIntOr0(row.lost)
    /\ r.totalPlayed = parseIntOr0(row.played)
    /\ row.winPct /= <<>> => r.winPercentage = parseFloatOr0(row.winPct)
    /\ row.rrWon /= <<>> => r.rrWon = parseIntOr0(row.rrWon)
    /\ row.rrPlayed /= <<>> => r.rrPlayed = parseIntOr0(row.rrPlayed)
    /\ row.rrWinPct /= <<>> => r.rrWinPercentage = parseFloatOr0(row.rrWinPct)

\* The step imports a readable file with one row.
StepIsOneRowFile == StepIsReadableFile /\ Len(files[fileIdx].rows) = 1

\* C22: the result stored from a row whose totals violate
\* totalWon + totalLost = totalPlayed has the totals and every other counter
\* of the row as they are parsed.
C22_ViolatingCountersKept ==
    [][(StepIsOneRowFile /\ TotalsViolated(files[fileIdx].rows[1]))
        => \A k \in 1..Len(results') :
              results'[k].id \in AddedResults => AsParsed(results'[k], files[fileIdx].rows[1])]_vars

\* The value of a column is missing or does not start with a number.
NotANumber(s) == parseIntOr0(s) = 0 /\ DigitRun(s, 1) = 0

\* C23: a numeric field of a stored result whose column is missing or not
\* a number is stored as zero, the seed included.
C23_UnparsableStoredAsZero ==
    [][StepIsOneRowFile
        => \A k \in 1..Len(results') :
              results'[k].id \in AddedResults
              => /\ NotANumber(files[fileIdx].rows[1].bodFinish) => results'[k].bodFinish = 0
                 /\ NotANumber(files[fileIdx].rows[1].rrPlayed) => results'[k].rrPlayed = 0
                 /\ NotANumber(files[fileIdx].rows[1].rrWinPct) => results'[k].rrWinPercentage = 0
                 /\ NotANumber(files[fileIdx].rows[1].seed) => results'[k].seed = Stored(0)]_vars

\* C24: the tournament created from a per-tournament file has the format M
\* for the token M, W for the token W and Mixed for every other token,
\* under both scripts.
C24_FormatFromTokenOnly ==
    [][StepIsReadableFile
        => \A k \in 1..Len(tournaments') :
              tournaments'[k].id \notin IdsOf(tournaments)
              => tournaments'[k].format
                   = (IF files[fileIdx].token = "M" THEN "M"
                      ELSE IF files[fileIdx].token = "W" THEN "W" ELSE "Mixed")]_vars

\* max(0, min(1, 1 - (bestResult/avgFinish - 1))) in hundredths, zero for
\* an avgFinish of zero.
ScoreOfFormula(bestResult, avgFinish) ==
    IF avgFinish = 0 THEN 0
    ELSE Max(0, Min(100, 100 - ((100 * bestResult) \div avgFinish - 100)))

\* C25: the consistency score of a player is the value of the formula, lies
\* between 0 and 1, and is zero exactly when avgFinish is zero.
C25_ConsistencyScoreIsFormula ==
    (reply.kind = "trends" /\ reply.status = 200)
    => /\ reply.consistencyScore = ScoreOfFormula(reply.bestResult, reply.avgFinish)
       /\ reply.consistencyScore >= 0 /\ reply.consistencyScore <= 100
       /\ reply.consistencyScore = 0 <=> reply.avgFinish = 0

\* The request carries a Bearer token that verifies and whose email is in
\* the authorized list.
Authorized(authHeader) ==
    /\ authHeader = "Bearer mock-admin-token"
    /\ \/ authorizedUsers = EnvUnset
       \/ \E i \in 1..Len(authorizedUsers) :
             authorizedUsers[i] \in {"admin@example.com", " Admin@Example.com "}

AuthRequestStep == requests' = requests + 1 /\ reply'.kind = "auth"

C26_AuthorizedHandled ==
    /\ reply.kind = "auth"
    /\ reply.handled
    /\ reply.status = 200
    /\ \E i \in 1..Len(players) : players[i].gamesPlayed = 10 /\ players[i].gamesWon = 7

\* The latest invocation of simple-data-import.js ran to its end and the
\* store is as it left it.
SimpleRunComplete ==
    /\ variant = "simple"
    /\ pc = "idle"
    /\ marker /= 0
    /\ history /= <<>>
    /\ Last(history).outcome = "done"

\* A row of Champions.json that importChampions does not skip and that
\* carries a location.
MetadataRow(row) ==
    /\ ~(row.format = "" \/ LowerIncludes(row.format, "(") \/ row.date = NullV)
    /\ row.location /= ""

\* C27: after a complete run of simple-data-import.js, every row of
\* Champions.json that is no summary row and carries a location has a stored
\* tournament of its format that holds the location.
C27_MetadataAppliedAfterRun ==
    (SimpleRunComplete /\ championsFile.status = "ok")
    => \A i \in 1..Len(championsFile.rows) :
          MetadataRow(championsFile.rows[i])
          => \E j \in 1..Len(tournaments) :
                /\ tournaments[j].format = FormatOfRow(championsFile.rows[i].format)
                /\ tournaments[j].location = championsFile.rows[i].location

\* A legacy YYYYMM number: a year from 2009 and a month of 1 to 12.
LegacyNumber(n) == n \div 100 >= 2009 /\ n \div 100 <= 9999 /\ n % 100 >= 1 /\ n % 100 <= 12

\* C28: a create request whose bodNumber is a sequential number of 1 to
\* 999999, or a legacy YYYYMM number that agrees with the date of the body,
\* passes the validation of the controller and of the schema, and the two
\* accept the same bodNumber values.
C28_ValidatorsAgreeOnBodNumber ==
    reply.kind = "create"
    => /\ (reply.bodNumber >= 1 /\ reply.bodNumber <= 999999)
             => reply.stage \notin {"controller", "schema"}
       /\ (LegacyNumber(reply.bodNumber) /\ BodNumberOf(reply.date) = reply.bodNumber)
             => reply.stage \notin {"controller", "schema"}
       /\ reply.controller <=> reply.schema

SetOf(seq) == {seq[i] : i \in 1..Len(seq)}

\* The step in which the bulk import of a one-record request looks for the
\* existing result and stores the record.
StoreRecordStep == creating.step = "store" /\ creating'.step = "none"

\* C29: the bulk import takes a record for an existing team only when a
\* stored result of the tournament has the same set of players: it changes
\* no stored result of another set of players, and a record that it takes
\* without error and whose set no stored result of the tournament has is
\* created as a new result.
C29_ExistingTeamBySamePlayerSet ==
    [][StoreRecordStep =>
         /\ \A k \in 1..Len(results) :
               SetOf(results[k].players) /= SetOf(creating.players) => results'[k] = results[k]
         /\ (creating'.errors = 0
               /\ ~\E k \in 1..Len(results) :
                     /\ results[k].tournamentId = creating.tournamentId
                     /\ SetOf(results[k].players) = SetOf(creating.players))
            => (creating'.created = 1 /\ Len(results') = Len(results) + 1)]_vars

\* C30: during and after the runs of the import, every stored tournament
\* result has the tournamentId of a stored tournament and a players array of
\* two ids of stored players.
C30_ResultsReferenceStoredDocuments ==
    \A k \in 1..Len(results) :
        /\ results[k].tournamentId \in IdsOf(tournaments)
        /\ Len(results[k].players) = 2
        /\ SetOf(results[k].players) \subseteq IdsOf(players)

====
